---- MODULE Spec2Model ----
(***************************************************************************)
(* Ouroboros: the workflow engine (src/src/graph.py), the Run State with   *)
(* its per-field reducers (src/src/state.py), the caller's turn loop       *)
(* (src/app.py) and the ClickHouse checkpoint store                        *)
(* (src/src/checkpointer.py, src/src/db.py).                               *)
(*                                                                         *)
(* Spec      the workflow engine driven turn after turn on one thread      *)
(* LiveSpec  Spec with weak fairness of the engine's steps                 *)
(* CkptSpec  the checkpoint store under put / get_tuple calls              *)
(* StoreSpec the checkpoint store with pending writes and list             *)
(* ToolSpec  the tool dispatcher and the file tools (src/src/tools.py,      *)
(*           src/src/file_tools.py) called on one file                     *)
(* FaultSpec one turn of the workflow with the sandbox call taken step by   *)
(*           step (src/src/sandbox.py) and the store going away            *)
(* HistorySpec the checkpoint store under put, list and the clock          *)
(* ChainSpec the checkpoint store as runs load and write checkpoints        *)
(* HostSpec  two runs retrieving artifacts into the host directory         *)
(* BatchSpec one execute step with the sandbox log followed entry by entry  *)
(* MemorySpec one run with memory supplied by the caller                    *)
(* FilterSpec the sandbox's command filter applied to command lists         *)
(* ArtifactSpec the sandbox's artifact retrieval applied to working         *)
(*           directories                                                   *)
(* SolutionSpec two runs storing solutions (src/src/rag.py)                 *)
(* CallerSpec Spec with the caller's merge loop (src/app.py) followed       *)
(***************************************************************************)
EXTENDS Integers, Sequences, FiniteSets, TLC

VARIABLES
    state,          \* the Run State channels of the thread (AgentState)
    pc,             \* the node the engine runs next; "done" is END
    node_output,    \* the partial update returned by the last step
    decision,       \* the Thinker's result while think_node holds it
    turn,           \* user turns started on the thread so far
    checkpointer,   \* whether the graph was compiled with a checkpointer
    logs_contributed,   \* sum of execution_logs entries every step returned
    refl_contributed,   \* sum of reflections entries every step returned
    visited,        \* the nodes the current run has run since its tool rounds
    first_exec,     \* how the first execution of the current run went
    table,          \* rows of the checkpoints table, in insertion order
    put_log,        \* the arguments of every put call, in call order
    writes,         \* rows of the checkpoint_writes table, in insertion order
    writes_log,     \* every write handed to put_writes, in call order
    now,            \* the database clock, in whole seconds
    ret,            \* the last checkpointer call and what it returned
    sb,             \* the execute_batch call in progress, if any
    store,          \* the ClickHouse client of the run's thread: online,
                    \* unreachable (connected, the store gone), offline (None)
    agent_metrics,  \* rows inserted into the agent_metrics table
    fs,             \* the file at path "f": whether it exists, and its bytes
    call,           \* the last tool call: its arguments and what it returned
    artifact_dir,   \* the host directory sandbox_artifacts: whether it
                    \* exists, and which run wrote the file of each name
    runs,           \* two runs with their own thread ids, each in its
                    \* sandbox call: position, files found, artifacts
    batch,          \* an execute_batch call followed entry by entry: its
                    \* logs, and the entries handed to the log callback
    memories,       \* the memory table as retrieval finds it during the
                    \* run: whether it can be read, and the facts it holds
    workdir,        \* /app of a container after its commands, and the
                    \* artifacts execute_batch retrieved from it
    solutions,      \* the solutions table, and the store_solution calls
                    \* of two runs
    caller          \* app.py's current_state, when the caller is followed

sbvars == <<sb, store, agent_metrics>>
hostvars == <<artifact_dir, runs, batch, memories, workdir, solutions>>
toolvars == <<fs, call, artifact_dir, runs, batch, memories, workdir, solutions>>
wfvars == <<state, pc, node_output, decision, turn, checkpointer,
            logs_contributed, refl_contributed, visited, first_exec, caller,
            sb, store, agent_metrics, fs, call, artifact_dir, runs, batch, memories,
            workdir, solutions>>
ckvars == <<table, put_log, writes, writes_log, now, ret>>
vars == <<state, pc, node_output, decision, turn, checkpointer,
          logs_contributed, refl_contributed, visited, first_exec, caller, table,
          put_log, writes, writes_log, now, ret, sb, store, agent_metrics,
          fs, call, artifact_dir, runs, batch, memories, workdir, solutions>>

----------------------------------------------------------------------------
(* Bounds of the model *)

MaxTurns == 2
MaxRows == 2
MaxTime == 1
MaxWrites == 4
MaxSandboxCalls == 1
MaxLen == 3
MaxOld == 2
MaxCommands == 2
MaxStored == 3

(* Program constants *)

ToolLimit_raised == 3 + 1
ToolLimit == 3
IterationLimit == 3

----------------------------------------------------------------------------
(* Small input domains *)

EmptyMap == <<>>

Decision(nc, tc, r) == [needs_code |-> nc, tool_choice |-> tc, response |-> r]

(* What the Thinker returns: a direct answer, a direct answer left empty,   *)
(* an empty tool choice, a tool request without and with a response, code,  *)
(* and code together with a tool request.                                   *)
Decisions ==
    { Decision(FALSE, "none", "answer"),
      Decision(FALSE, "none", ""),
      Decision(FALSE, "", "answer"),
      Decision(FALSE, "sql_db", ""),
      Decision(FALSE, "sql_db", "answer"),
      Decision(TRUE, "none", ""),
      Decision(TRUE, "sql_db", "answer") }
FallbackResponse == "I cannot process further tool requests due to loop limits."
SynthResponses == {"final"}
Critiques == {"critique"}

(* What the code generator returns: files and commands.  The last one is   *)
(* the empty result of a failed or unparsable generation.                  *)
GenOutputs ==
    { [files |-> [f \in {"a"} |-> 1], commands |-> <<"python3 a">>],
      [files |-> [f \in {"a", "b"} |-> IF f = "a" THEN 3 ELSE 2],
       commands |-> <<"python3 b">>],
      [files |-> EmptyMap,            commands |-> <<>>] }

(* What the language model does for the code generator: it fails, or it   *)
(* answers, and the answer is parsed into files and commands.              *)
Generations ==
    { [raises |-> TRUE, files |-> EmptyMap, commands |-> <<>>] }
        \cup { [raises |-> FALSE, files |-> g.files, commands |-> g.commands] :
                   g \in GenOutputs }

\* dspy.Prediction(files=.., commands=..), or the exception leaving forward
Prediction(files, commands) == [raised |-> FALSE, files |-> files, commands |-> commands]

\* CodeGenerator.forward without its try block
forward_unguarded(generation) ==
    IF generation.raises
    THEN [raised |-> TRUE, files |-> EmptyMap, commands |-> <<>>]
    ELSE Prediction(generation.files, generation.commands)

\* CodeGenerator.forward: the parsed answer, and the empty prediction when
\* anything in the try block raised
forward(generation) ==
    IF generation.raises
    THEN Prediction(EmptyMap, <<>>)
    ELSE Prediction(generation.files, generation.commands)

(* A log entry of the sandbox: its type, and whether its content holds one *)
(* of the failure markers execute scans for.                               *)
Entry(t, m) == [type |-> t, marker |-> m]

(* What sandbox.execute_batch returns: logs and artifacts.                 *)
SandboxResults ==
    { [logs |-> <<Entry("system", FALSE), Entry("stdout", FALSE),
                  Entry("stderr", FALSE), Entry("success", FALSE)>>,
       artifacts |-> [f \in {"out"} |-> "path"]],
      [logs |-> <<Entry("system", FALSE), Entry("stderr", TRUE), Entry("error", FALSE)>>,
       artifacts |-> EmptyMap] }

----------------------------------------------------------------------------
(* The Run State and its reducers *)

\* a reducer that replaces instead of merging
ior_replacing(a, b) == b

\* operator.ior on dicts: union, the right operand's values win
ior(a, b) == [k \in (DOMAIN a) \cup (DOMAIN b) |-> IF k \in DOMAIN b THEN b[k] ELSE a[k]]

\* a reducer that replaces instead of appending
add_replacing(a, b) == b

\* operator.add on lists: concatenation
add(a, b) == a \o b

\* the channel of each AgentState field: a reducer where one is annotated,
\* last value otherwise
Reduce(k, old, new) ==
    CASE k = "files" -> ior(old, new)
      [] k = "execution_logs" -> add(old, new)
      [] k = "reflections" -> add(old, new)
      [] OTHER -> new

\* the engine applies a step's partial update to the channels
Merge(s, upd) ==
    [k \in DOMAIN s |-> IF k \in DOMAIN upd THEN Reduce(k, s[k], upd[k]) ELSE s[k]]

\* the channels of a thread nothing was written to yet; the scalar values
\* are the defaults the nodes read with state.get
EmptyChannels ==
    [ needs_code |-> FALSE, tool_choice |-> "none", response |-> "",
      rag_context |-> "", tool_usage_count |-> 0,
      files |-> EmptyMap, commands |-> <<>>, execution_logs |-> <<>>,
      retrieved_files |-> EmptyMap, reflections |-> <<>>,
      iteration |-> 0, is_solved |-> FALSE, memory |-> <<>>, citations |-> <<>> ]

\* the input app.py passes to workflow_app.stream on every turn
initial_params ==
    [ needs_code |-> FALSE, response |-> "", rag_context |-> "",
      files |-> EmptyMap, commands |-> <<>>, execution_logs |-> <<>>,
      reflections |-> <<>>, iteration |-> 0, is_solved |-> FALSE,
      tool_usage_count |-> 0, memory |-> <<>> ]

Len0(upd, k) == IF k \in DOMAIN upd THEN Len(upd[k]) ELSE 0

----------------------------------------------------------------------------
(* Routing *)

\* the citations field of the Thinker's result: the file names it lists
\* for a context that holds a tool result
Cited(context) == IF context = "" THEN <<>> ELSE <<"doc.pdf">>

\* app.py's merge loop over the items of one node output: files updated,
\* execution_logs, reflections and citations appended to what is there,
\* every other key set to the new value
merge_state(current_state, node_output_) ==
    [k \in DOMAIN current_state \cup DOMAIN node_output_ |->
        IF k \notin DOMAIN node_output_ THEN current_state[k]
        ELSE IF k = "files" THEN ior(current_state[k], node_output_[k])
        ELSE IF k \in {"execution_logs", "reflections", "citations"}
             THEN (IF k \in DOMAIN current_state THEN current_state[k] ELSE <<>>)
                      \o node_output_[k]
        ELSE node_output_[k]]

\* the caller is not followed
NoCaller == [on |-> FALSE]

\* current_state = initial_params.copy()
NewCaller == [on |-> TRUE, current_state |-> initial_params]

\* the routing after think asking for the tool before the code
after_think_tool_first(s) ==
    IF s.tool_choice \notin {"none", ""} /\ s.tool_usage_count < ToolLimit
    THEN "tool_node"
    ELSE IF s.needs_code THEN "generate_code"
    ELSE "lesson"

after_think(s) ==
    IF s.needs_code THEN "generate_code"
    ELSE IF s.tool_choice \notin {"none", ""}
         THEN IF s.tool_usage_count >= ToolLimit THEN "lesson" ELSE "tool_node"
         ELSE "lesson"

\* the iteration test off by one
after_execute_off_by_one(s) ==
    IF s.is_solved THEN "synthesize"
    ELSE IF s.iteration > IterationLimit THEN "synthesize"
    ELSE "reflect"

\* the iteration test left out
after_execute_unbounded(s) ==
    IF s.is_solved THEN "synthesize" ELSE "reflect"

after_execute(s) ==
    IF s.is_solved THEN "synthesize"
    ELSE IF s.iteration >= IterationLimit THEN "synthesize"
    ELSE "reflect"

----------------------------------------------------------------------------
(* Nodes: each returns its partial update *)

\* the memories think_node retrieves when it has no context yet: the
\* facts found, none when retrieval raised
retrieve(tbl) == IF tbl.up THEN tbl.facts ELSE <<>>

\* think_node without the tool safety check
think_node_unchecked(s, d_needs_code, d_tool_choice, d_response) ==
    LET direct == ~d_needs_code /\ d_tool_choice = "none"
    IN  [ needs_code |-> d_needs_code,
          tool_choice |-> d_tool_choice,
          response |-> IF direct THEN d_response ELSE "",
          rag_context |-> IF s.rag_context = "" THEN "retrieved" ELSE s.rag_context,
          memory |-> IF s.rag_context = "" THEN retrieve(memories) ELSE s.memory,
          files |-> EmptyMap,
          commands |-> <<>>,
          execution_logs |-> <<>>,
          retrieved_files |-> EmptyMap,
          citations |-> Cited(s.rag_context),
          reflections |-> <<>>,
          iteration |-> 0,
          is_solved |-> direct ]

\* think_node, given the Thinker's decision
think_node(s, d_needs_code, d_tool_choice, d_response) ==
    LET limited == d_tool_choice \notin {"none", ""} /\ s.tool_usage_count >= ToolLimit
        tool_choice == IF limited THEN "none" ELSE d_tool_choice
        result_response ==
            IF limited /\ ~d_needs_code /\ d_response = ""
            THEN FallbackResponse ELSE d_response
        direct == ~d_needs_code /\ tool_choice = "none"
    IN  [ needs_code |-> d_needs_code,
          tool_choice |-> tool_choice,
          response |-> IF direct THEN result_response ELSE "",
          rag_context |-> IF s.rag_context = "" THEN "retrieved" ELSE s.rag_context,
          memory |-> IF s.rag_context = "" THEN retrieve(memories) ELSE s.memory,
          files |-> EmptyMap,
          commands |-> <<>>,
          execution_logs |-> <<>>,
          retrieved_files |-> EmptyMap,
          citations |-> Cited(s.rag_context),
          reflections |-> <<>>,
          iteration |-> 0,
          is_solved |-> direct ]

\* what execute_tool may return to tool_node: nothing, or some text
ToolResults == {"", "rows"}

\* f"Tool '{tool_name}' result:\n{result}"
ToolOutput(tool_name, result) ==
    IF result = "" THEN "Tool result:" ELSE "Tool result: rows"

\* tool_node forgetting to count the call
tool_node_uncounted(s, result) ==
    [ rag_context |-> ToolOutput(s.tool_choice, result),
      tool_choice |-> "none",
      tool_usage_count |-> s.tool_usage_count ]

\* tool_node handing on the bare result
tool_node_bare_result(s, result) ==
    [ rag_context |-> result,
      tool_choice |-> "none",
      tool_usage_count |-> s.tool_usage_count + 1 ]

tool_node(s, result) ==
    [ rag_context |-> ToolOutput(s.tool_choice, result),
      tool_choice |-> "none",
      tool_usage_count |-> s.tool_usage_count + 1 ]

\* generate_code_node forgetting to count the cycle
generate_code_node_uncounted(s, g) ==
    [ files |-> g.files,
      commands |-> g.commands,
      iteration |-> s.iteration ]

generate_code_node(s, g) ==
    [ files |-> g.files,
      commands |-> g.commands,
      iteration |-> s.iteration + 1 ]

\* the scan of the logs taking every stderr entry for an error
has_errors_any_stderr(logs) ==
    \E i \in DOMAIN logs : logs[i].type \in {"error", "stderr"}

\* the scan of the logs in execute_node
has_errors(logs) ==
    \E i \in DOMAIN logs :
        \/ logs[i].type = "error"
        \/ logs[i].type = "stderr" /\ logs[i].marker

\* execute_node judging by the error entries alone
execute_node_ignoring_markers(s, r) ==
    IF s.commands = <<>>
    THEN [ execution_logs |-> <<Entry("error", FALSE)>>,
           is_solved |-> FALSE ]
    ELSE [ execution_logs |-> r.logs,
           is_solved |-> \A i \in DOMAIN r.logs : r.logs[i].type # "error",
           retrieved_files |-> r.artifacts ]

execute_node(s, r) ==
    IF s.commands = <<>>
    THEN [ execution_logs |-> <<Entry("error", FALSE)>>,
           is_solved |-> FALSE ]
    ELSE [ execution_logs |-> r.logs,
           is_solved |-> ~has_errors(r.logs),
           retrieved_files |-> r.artifacts ]

\* reflect_node returning no critique
reflect_node_silent(s, critique) == [ reflections |-> <<>> ]

reflect_node(s, critique) == [ reflections |-> <<critique>> ]

synthesize_node(s, resp) == [ response |-> resp ]

----------------------------------------------------------------------------
(* Steps of the engine *)

\* logs with no entry of type error and no failure marker
CleanLogs(logs) ==
    \A i \in DOMAIN logs : logs[i].type # "error" /\ ~logs[i].marker

\* one step: the node's update is merged into the channels, then routed
NoDecision == Decision(FALSE, "-", "-")

RECURSIVE AfterTools(_)
\* the nodes run without the think / tool_node rounds it starts with
AfterTools(p) ==
    IF Len(p) >= 2 /\ p[1] = "think" /\ p[2] = "tool_node"
    THEN AfterTools(Tail(Tail(p)))
    ELSE p

StepCore(upd, next, d) ==
    /\ state' = Merge(state, upd)
    /\ decision' = d
    /\ node_output' = upd
    /\ pc' = next
    /\ logs_contributed' = logs_contributed + Len0(upd, "execution_logs")
    /\ refl_contributed' = refl_contributed + Len0(upd, "reflections")
    /\ visited' = AfterTools(Append(visited, pc))
    /\ first_exec' = IF pc = "execute" /\ first_exec = "none"
                     THEN IF CleanLogs(upd.execution_logs) THEN "clean" ELSE "errors"
                     ELSE first_exec
    /\ caller' = IF caller.on
                 THEN [caller EXCEPT !.current_state = merge_state(@, upd)]
                 ELSE caller
    /\ UNCHANGED <<turn, checkpointer>>
    /\ UNCHANGED ckvars
    /\ UNCHANGED toolvars

Step(upd, next, d) ==
    /\ StepCore(upd, next, d)
    /\ UNCHANGED sbvars

Think ==
    /\ pc = "think"
    /\ \E d \in Decisions :
          LET upd == think_node(state, d.needs_code, d.tool_choice, d.response)
          IN  Step(upd, after_think(Merge(state, upd)), d)

Tool ==
    /\ pc = "tool_node"
    /\ \E result \in ToolResults : Step(tool_node(state, result), "think", NoDecision)

\* generate_code_node calls the code generator outside any try block: an
\* exception leaving forward leaves the node and ends the run
GenerateCode ==
    /\ pc = "generate_code"
    /\ \E generation \in Generations :
          LET result == forward(generation)
          IN  IF result.raised
              THEN /\ pc' = "aborted"
                   /\ UNCHANGED <<state, node_output, decision, turn, checkpointer,
                                  logs_contributed, refl_contributed, visited,
                                  first_exec, caller>>
                   /\ UNCHANGED ckvars
                   /\ UNCHANGED sbvars
                   /\ UNCHANGED toolvars
              ELSE Step(generate_code_node(state, result), "execute", NoDecision)

Execute ==
    /\ pc = "execute"
    /\ \E r \in SandboxResults :
          LET upd == execute_node(state, r)
          IN  Step(upd, after_execute(Merge(state, upd)), NoDecision)

Reflect ==
    /\ pc = "reflect"
    /\ \E c \in Critiques : Step(reflect_node(state, c), "generate_code", NoDecision)

Synthesize ==
    /\ pc = "synthesize"
    /\ \E r \in SynthResponses : Step(synthesize_node(state, r), "lesson", NoDecision)

\* lesson_node and memory_node return no update of the fields modelled here
Lesson ==
    /\ pc = "lesson"
    /\ Step(EmptyMap, "memory", NoDecision)

Memory ==
    /\ pc = "memory"
    /\ Step(EmptyMap, "done", NoDecision)

\* no execute_batch call is in progress
Idle ==
    [ pc |-> "idle", container |-> "none", logs |-> <<>>, artifacts |-> EmptyMap,
      todo |-> 0, exc |-> FALSE, cb_broken |-> FALSE, faults |-> {} ]

\* app.py starts the next turn on the same thread id with initial_params:
\* with a checkpointer the input is merged into the channels the thread's
\* last checkpoint holds, without one the channels start empty
NewTurn ==
    /\ pc = "done"
    /\ turn < MaxTurns
    /\ turn' = turn + 1
    /\ state' = Merge(IF checkpointer THEN state ELSE EmptyChannels, initial_params)
    /\ node_output' = initial_params
    /\ decision' = NoDecision
    /\ pc' = "think"
    /\ logs_contributed' = IF checkpointer THEN logs_contributed ELSE 0
    /\ refl_contributed' = IF checkpointer THEN refl_contributed ELSE 0
    /\ visited' = <<>>
    /\ first_exec' = "none"
    /\ caller' = IF caller.on THEN NewCaller ELSE caller
    /\ UNCHANGED checkpointer
    /\ UNCHANGED ckvars
    /\ UNCHANGED sbvars
    /\ UNCHANGED toolvars

EngineStep ==
    \/ Think
    \/ Tool
    \/ GenerateCode
    \/ Execute
    \/ Reflect
    \/ Synthesize
    \/ Lesson
    \/ Memory

Next ==
    \/ EngineStep
    \/ NewTurn

\* concurrent runs: one per browser session, each with its own thread id
Runs == {"t1", "t2"}

\* names of the files a run's commands may leave in /app
ArtifactNames == {"plot.png", "data.csv"}

\* sandbox_artifacts before any run made it
NoArtifactDir == [exists |-> FALSE, files |-> EmptyMap]

\* a run that has not called the sandbox yet
NotStarted ==
    [ pc |-> "idle", found |-> {}, fname |-> "", makedirs |-> FALSE,
      artifacts |-> EmptyMap, errors |-> 0 ]

\* no execute_batch call followed yet
NoBatch ==
    [ pc |-> "idle", on_log |-> FALSE, logs |-> <<>>, delivered |-> <<>>,
      container |-> FALSE, todo |-> <<>>, k |-> 0, started |-> {},
      exit |-> EmptyMap, artifacts |-> EmptyMap, ran |-> <<>>, raised |-> FALSE ]

\* no artifact retrieval followed yet
NoWorkdir == [pc |-> "idle"]

\* an empty solutions table, and no store_solution call under way
NoSolutions ==
    [rows |-> <<>>, calls |-> [r \in Runs |-> [pc |-> "idle", task |-> "", seen |-> 0]]]

InitRest ==
    /\ workdir = NoWorkdir
    /\ solutions = NoSolutions
    /\ checkpointer \in BOOLEAN
    /\ decision = NoDecision
    /\ logs_contributed = 0
    /\ refl_contributed = 0
    /\ first_exec = "none"
    /\ table = <<>>
    /\ put_log = <<>>
    /\ writes = <<>>
    /\ writes_log = <<>>
    /\ now = 0
    /\ ret = [op |-> "none"]
    /\ sb = Idle
    /\ agent_metrics = 0
    /\ call = [op |-> "none"]
    /\ artifact_dir = NoArtifactDir
    /\ runs = [r \in Runs |-> NotStarted]
    /\ batch = NoBatch

\* the memory table of a database nothing was stored in yet
NoMemories == [up |-> TRUE, facts |-> <<>>]

InitRunWith(app) ==
    /\ InitRest
    /\ caller = app
    /\ memories = NoMemories
    /\ turn = 1
    /\ state = Merge(EmptyChannels, initial_params)
    /\ node_output = initial_params
    /\ pc = "think"
    /\ visited = <<>>

InitRun == InitRunWith(NoCaller)

\* the graph is compiled with the checkpointer when the client connected
Init ==
    /\ InitRun
    /\ store = IF checkpointer THEN "online" ELSE "offline"
    /\ fs = [exists |-> FALSE, content |-> <<>>]

Spec == Init /\ [][Next]_vars

\* the run with app.py's merge loop followed
CallerInit ==
    /\ InitRunWith(NewCaller)
    /\ store = IF checkpointer THEN "online" ELSE "offline"
    /\ fs = [exists |-> FALSE, content |-> <<>>]

CallerSpec == CallerInit /\ [][Next]_vars

LiveSpec == Init /\ [][Next]_vars /\ WF_vars(EngineStep)

----------------------------------------------------------------------------
(* The sandbox call, step by step, and the store going away *)

\* log(type, content): the entry is appended, then on_log is called with it
Log(logs, t, m) == Append(logs, Entry(t, m))

\* the call moves on, noting the kinds of failure met
SbGoto(next, logs, kinds) ==
    [sb EXCEPT !.pc = next, !.logs = logs, !.faults = @ \cup kinds]

\* the call leaves execute_batch: by the return statement, or by an
\* exception that was raised in the handler
SbEnd(c) == [c EXCEPT !.pc = IF c.exc THEN "raised" ELSE "returned"]

SbUnchanged ==
    /\ UNCHANGED <<state, pc, node_output, decision, turn, checkpointer,
                   logs_contributed, refl_contributed, visited, first_exec, caller>>
    /\ UNCHANGED ckvars
    /\ UNCHANGED <<store, agent_metrics>>
    /\ UNCHANGED toolvars

\* execute_node calls sandbox.execute_batch(files, commands, on_log); the
\* model follows the first MaxSandboxCalls calls of a run
SbCall ==
    /\ pc = "execute"
    /\ sb.pc = "idle"
    /\ state.commands # <<>>
    /\ state.iteration <= MaxSandboxCalls
    /\ sb' = [Idle EXCEPT !.pc = "init", !.todo = Len(state.commands)]
    /\ SbUnchanged

\* the log callback of the caller starts to raise
CallbackBreaks ==
    /\ sb.pc \in {"init", "prepare", "start", "deploy", "commands", "handler", "cleanup"}
    /\ ~sb.cb_broken
    /\ sb' = [sb EXCEPT !.cb_broken = TRUE]
    /\ SbUnchanged

\* log("system", "Initializing sandbox ...")
SbInit ==
    /\ sb.pc = "init"
    /\ sb' = IF sb.cb_broken
             THEN SbGoto("raised", Log(sb.logs, "system", FALSE), {"callback"})
             ELSE SbGoto("prepare", Log(sb.logs, "system", FALSE), {})
    /\ SbUnchanged

\* the files are written to the temporary directory and archived, before
\* the try block: a file that cannot be written raises out of the call
SbPrepare ==
    /\ sb.pc = "prepare"
    /\ \E written \in BOOLEAN :
          LET names == DOMAIN state.files
              entries == [n \in 1..Cardinality(names) |-> Entry("file", FALSE)]
          IN  sb' = IF ~written /\ names # {}
                    THEN SbGoto("raised", sb.logs, {"prepare"})
                    ELSE IF sb.cb_broken /\ names # {}
                    THEN SbGoto("raised", Log(sb.logs, "file", FALSE), {"callback"})
                    ELSE SbGoto("start", sb.logs \o entries, {})
    /\ SbUnchanged

\* log("system", "Starting container..."); client.containers.run(...)
SbStart ==
    /\ sb.pc = "start"
    /\ \E started \in BOOLEAN :
          LET logs == Log(sb.logs, "system", FALSE)
          IN  sb' = IF sb.cb_broken THEN SbGoto("handler", logs, {"callback"})
                    ELSE IF ~started THEN SbGoto("handler", logs, {"start"})
                    ELSE [SbGoto("deploy", logs, {}) EXCEPT !.container = "running"]
    /\ SbUnchanged

\* put_archive, log("system", "Deployed ..."), the bootstrap exec_run
SbDeploy ==
    /\ sb.pc = "deploy"
    /\ \E deployed \in BOOLEAN :
          sb' = IF ~deployed THEN SbGoto("handler", sb.logs, {"run"})
                ELSE IF sb.cb_broken
                THEN SbGoto("handler", Log(sb.logs, "system", FALSE), {"callback"})
                ELSE SbGoto("commands", Log(sb.logs, "system", FALSE), {})
    /\ SbUnchanged

\* one command: log("command", ..), exec_run, the output and the exit code
SbCommand ==
    /\ sb.pc = "commands"
    /\ sb.todo > 0
    /\ \E outcome \in {"exit0", "exit1", "raises"} :
          LET logs == Log(sb.logs, "command", FALSE)
          IN  sb' = IF sb.cb_broken THEN SbGoto("handler", logs, {"callback"})
                    ELSE IF outcome = "raises" THEN SbGoto("handler", logs, {"run"})
                    ELSE IF outcome = "exit1"
                    THEN [SbGoto("commands",
                                 Log(Log(logs, "stderr", TRUE), "error", FALSE), {"exit"})
                          EXCEPT !.todo = @ - 1]
                    ELSE [SbGoto("commands",
                                 Log(Log(logs, "stdout", FALSE), "success", FALSE), {})
                          EXCEPT !.todo = @ - 1]
    /\ SbUnchanged

\* artifact retrieval: the listing, then get_archive of the new file, whose
\* failure is logged as an error entry and swallowed
SbArtifacts ==
    /\ sb.pc = "commands"
    /\ sb.todo = 0
    /\ \E outcome \in {"retrieved", "archive_fails", "find_raises"} :
          LET logs == Log(sb.logs, "system", FALSE)
          IN  sb' = IF sb.cb_broken THEN SbGoto("handler", logs, {"callback"})
                    ELSE IF outcome = "find_raises" THEN SbGoto("handler", logs, {"run"})
                    ELSE IF outcome = "archive_fails"
                    THEN SbGoto("cleanup",
                                Log(Log(logs, "system", FALSE), "error", FALSE), {"artifact"})
                    ELSE [SbGoto("cleanup", Log(logs, "system", FALSE), {})
                          EXCEPT !.artifacts = [f \in {"out"} |-> "path"]]
    /\ SbUnchanged

\* except Exception as e: log("error", "Sandbox error: ...")
SbHandler ==
    /\ sb.pc = "handler"
    /\ sb' = IF sb.cb_broken
             THEN [SbGoto("cleanup", Log(sb.logs, "error", FALSE), {"callback"})
                   EXCEPT !.exc = TRUE]
             ELSE SbGoto("cleanup", Log(sb.logs, "error", FALSE), {})
    /\ SbUnchanged

\* finally: if container: log("system", "Cleaning up..."), then stop and
\* remove inside a try whose except swallows everything
SbCleanup ==
    /\ sb.pc = "cleanup"
    /\ \E outcome \in {"removed", "stop_fails", "remove_fails"} :
          LET logs == Log(sb.logs, "system", FALSE)
          IN  sb' = IF sb.container = "none" THEN SbEnd(sb)
                    ELSE IF sb.cb_broken THEN SbGoto("raised", logs, {"callback"})
                    ELSE IF outcome = "stop_fails"
                    THEN SbEnd(SbGoto("cleanup", logs, {"stop"}))
                    ELSE IF outcome = "remove_fails"
                    THEN SbEnd([SbGoto("cleanup", logs, {"remove"})
                                EXCEPT !.container = "stopped"])
                    ELSE SbEnd([SbGoto("cleanup", logs, {}) EXCEPT !.container = "removed"])
    /\ SbUnchanged

SandboxStep ==
    \/ SbCall
    \/ SbInit
    \/ SbPrepare
    \/ SbStart
    \/ SbDeploy
    \/ SbCommand
    \/ SbArtifacts
    \/ SbHandler
    \/ SbCleanup

\* the metrics block of execute_node with the guard around it left out
metrics_block_unguarded(client) ==
    [ raised |-> client = "unreachable",
      inserted |-> IF client = "online" THEN 1 ELSE 0 ]

\* the metrics block of execute_node: log_execution returns at once when
\* the client is None, inserts a row otherwise, and an exception of the
\* insert is caught, by log_execution and by execute_node
metrics_block(client) ==
    [ raised |-> FALSE,
      inserted |-> IF client = "online" THEN 1 ELSE 0 ]

\* what execute_batch returned
SbResult == [logs |-> sb.logs, artifacts |-> sb.artifacts]

\* execute_node without commands returns before the sandbox is called
ExecuteNoCommands ==
    /\ pc = "execute"
    /\ sb.pc = "idle"
    /\ state.commands = <<>>
    /\ LET upd == execute_node(state, SbResult)
       IN  Step(upd, after_execute(Merge(state, upd)), NoDecision)

\* execute_node after execute_batch returned: the scan of the logs, the
\* metrics block, the update
ExecuteReturns ==
    /\ pc = "execute"
    /\ sb.pc = "returned"
    /\ LET upd == execute_node(state, SbResult)
           m == metrics_block(store)
       IN  IF m.raised
           THEN /\ pc' = "failed"
                /\ UNCHANGED <<state, node_output, decision, turn, checkpointer,
                               logs_contributed, refl_contributed, visited, first_exec,
                               caller, agent_metrics>>
                /\ UNCHANGED ckvars
                /\ UNCHANGED toolvars
           ELSE /\ StepCore(upd, after_execute(Merge(state, upd)), NoDecision)
                /\ agent_metrics' = agent_metrics + m.inserted
    /\ sb' = Idle
    /\ UNCHANGED store

\* an exception that left execute_batch leaves execute_node and the engine
ExecuteRaises ==
    /\ pc = "execute"
    /\ sb.pc = "raised"
    /\ pc' = "failed"
    /\ sb' = Idle
    /\ UNCHANGED <<state, node_output, decision, turn, checkpointer,
                   logs_contributed, refl_contributed, visited, first_exec, caller>>
    /\ UNCHANGED ckvars
    /\ UNCHANGED <<store, agent_metrics>>
    /\ UNCHANGED toolvars

\* the store stops answering after the client was connected
StoreGoesDown ==
    /\ store = "online"
    /\ pc \notin {"done", "failed"}
    /\ store' = "unreachable"
    /\ UNCHANGED <<state, pc, node_output, decision, turn, checkpointer,
                   logs_contributed, refl_contributed, visited, first_exec, caller>>
    /\ UNCHANGED ckvars
    /\ UNCHANGED <<sb, agent_metrics>>
    /\ UNCHANGED toolvars

\* the engine writes a checkpoint after every step; put has no guard
CanCheckpoint == ~checkpointer \/ store = "online"

\* the checkpoint after a step raises: the exception leaves the engine
CheckpointRaises ==
    /\ ~CanCheckpoint
    /\ pc \notin {"done", "failed"}
    /\ sb.pc \in {"idle", "returned"}
    /\ pc' = "failed"
    /\ sb' = Idle
    /\ UNCHANGED <<state, node_output, decision, turn, checkpointer,
                   logs_contributed, refl_contributed, visited, first_exec, caller>>
    /\ UNCHANGED ckvars
    /\ UNCHANGED <<store, agent_metrics>>
    /\ UNCHANGED toolvars

\* a step of the engine whose checkpoint is written
CheckpointedStep ==
    /\ CanCheckpoint
    /\ \/ Think
       \/ Tool
       \/ GenerateCode
       \/ ExecuteNoCommands
       \/ ExecuteReturns
       \/ Reflect
       \/ Synthesize
       \/ Lesson
       \/ Memory

FaultNext ==
    \/ CheckpointedStep
    \/ SandboxStep
    \/ CallbackBreaks
    \/ ExecuteRaises
    \/ StoreGoesDown
    \/ CheckpointRaises

\* the client is per thread: the thread of the run may have connected or
\* not, whatever the thread that compiled the graph found
FaultInit ==
    /\ InitRun
    /\ store \in {"online", "offline"}
    /\ fs = [exists |-> FALSE, content |-> <<>>]

FaultSpec == FaultInit /\ [][FaultNext]_vars

----------------------------------------------------------------------------
(* Properties of the workflow engine *)

\* a step of a Run State that lives on: an engine step, or a new turn whose
\* input is merged into the channels the checkpointer kept
SameRunState == pc # "done" \/ checkpointer

FilesOf(upd) == IF "files" \in DOMAIN upd THEN upd.files ELSE EmptyMap

IsPrefix(a, b) == Len(a) <= Len(b) /\ SubSeq(b, 1, Len(a)) = a

\* C1: iteration is at most 3 in every reachable state, and generate_code is
\* never entered when iteration is already 3 or more.
C1_IterationBounded ==
    /\ state.iteration <= 3
    /\ pc = "generate_code" => state.iteration < 3

\* a third generation is about to start after two failed attempts
C1_Witness ==
    pc = "generate_code" /\ state.iteration = 2 /\ Len(state.reflections) = 2

\* C2: tool_usage_count is at most 3 in every reachable state, and the tool
\* step never runs when tool_usage_count is already 3 or more.
C2_ToolUsageBounded ==
    /\ state.tool_usage_count <= 3
    /\ pc = "tool_node" => state.tool_usage_count < 3

\* the tool ran three times and the Thinker asks for a tool again
C2_Witness ==
    /\ state.tool_usage_count = 3
    /\ decision.tool_choice = "sql_db"
    /\ pc = "lesson"

\* C3: every run that is in think eventually reaches done, whatever the
\* decisions and the execution outcomes.
C3_RunTerminates == (pc = "think") ~> (pc = "done")

\* a run ended after using up both the tool budget and the iteration budget
C3_Witness ==
    /\ pc = "done"
    /\ state.tool_usage_count = 3
    /\ state.iteration = 3
    /\ ~state.is_solved

\* C4: after execute the engine goes to synthesize exactly when is_solved
\* holds or iteration is 3 or more, and to reflect otherwise.
C4_AfterExecute ==
    [][pc = "execute" =>
          pc' = IF state'.is_solved \/ state'.iteration >= 3
                THEN "synthesize" ELSE "reflect"]_vars

\* three failed executions in a row of one run end in synthesize, unsolved
C4_Witness ==
    /\ pc = "synthesize"
    /\ turn = 1
    /\ state.iteration = 3
    /\ ~state.is_solved
    /\ Len(state.reflections) = 2

\* the Thinker names a tool while the tool budget is used up
ToolAfterLimit ==
    /\ pc = "think"
    /\ state.tool_usage_count >= 3
    /\ decision'.tool_choice \notin {"none", "", "-"}

\* C5 as stated: a tool request at the limit is downgraded to "none", gets
\* the fallback response, and the engine goes from think to lesson.
C5_AsStated ==
    [][ToolAfterLimit =>
          /\ state'.tool_choice = "none"
          /\ state'.response = FallbackResponse
          /\ pc' = "lesson"]_vars

\* C5 amended: a tool request at the limit is always downgraded to "none"
\* and the tool step is not run; when the decision does not ask for code the
\* engine goes to lesson with the decision's response, or with the fallback
\* message when that response is empty; when it asks for code the engine
\* goes to generate_code with an empty response.
C5_Amended ==
    [][ToolAfterLimit =>
          /\ state'.tool_choice = "none"
          /\ pc' # "tool_node"
          /\ ~decision'.needs_code =>
                /\ pc' = "lesson"
                /\ state'.response = IF decision'.response = ""
                                     THEN FallbackResponse
                                     ELSE decision'.response
          /\ decision'.needs_code =>
                /\ pc' = "generate_code"
                /\ state'.response = ""]_vars

\* a tool request at the limit with no response got the fallback message
C5_Witness ==
    /\ pc = "lesson"
    /\ state.tool_usage_count = 3
    /\ decision.tool_choice = "sql_db"
    /\ ~decision.needs_code
    /\ decision.response = ""
    /\ state.tool_choice = "none"
    /\ state.response = FallbackResponse

C8_ThinkResets ==
    [][pc = "think" =>
          /\ state'.files = EmptyMap
          /\ state'.commands = <<>>
          /\ state'.execution_logs = <<>>
          /\ state'.retrieved_files = EmptyMap
          /\ state'.reflections = <<>>
          /\ state'.iteration = 0]_vars

HappyPath == <<"think", "generate_code", "execute", "synthesize", "lesson", "memory">>

\* C16: when think decides code is needed and the first execution emits no
\* error entry and no failure marker, the run goes think, generate_code,
\* execute, synthesize, lesson, memory in that order and never enters
\* reflect, and it ends with is_solved true and iteration 1.
C16_HappyPath ==
    first_exec = "clean" =>
        /\ pc \in {"synthesize", "lesson", "memory", "done"}
        /\ IsPrefix(visited, HappyPath)
        /\ state.is_solved
        /\ state.iteration = 1
        /\ pc = "done" => visited = HappyPath

\* a run of the second turn ended after a clean first execution, with the
\* earlier turn's logs still in the Run State
C16_Witness ==
    /\ pc = "done"
    /\ turn = 2
    /\ first_exec = "clean"
    /\ visited = HappyPath
    /\ Len(state.execution_logs) > 4

\* C25: every transition of the engine is one of the table: think goes to
\* generate_code when the decision says code is needed, even if it names a
\* tool, else to tool_node when it names a tool and tool_usage_count is
\* below 3, else to lesson; tool_node to think, generate_code to execute,
\* execute to synthesize or reflect, reflect to generate_code, synthesize
\* to lesson, lesson to memory, memory to done.
C25_TransitionTable ==
    [][pc # "done" =>
          pc' = CASE pc = "think" ->
                       IF decision'.needs_code THEN "generate_code"
                       ELSE IF /\ decision'.tool_choice \notin {"none", ""}
                               /\ state.tool_usage_count < 3
                            THEN "tool_node"
                            ELSE "lesson"
                  [] pc = "tool_node" -> "think"
                  [] pc = "generate_code" -> "execute"
                  [] pc = "execute" -> IF pc' = "reflect" THEN "reflect" ELSE "synthesize"
                  [] pc = "reflect" -> "generate_code"
                  [] pc = "synthesize" -> "lesson"
                  [] pc = "lesson" -> "memory"
                  [] pc = "memory" -> "done"]_vars

\* think has decided for code and named a tool that still had budget
C25_Witness ==
    /\ pc = "generate_code"
    /\ decision.needs_code
    /\ decision.tool_choice = "sql_db"
    /\ state.tool_usage_count = 2

\* the update of a tool step
IsToolUpdate(upd) == DOMAIN upd = {"rag_context", "tool_choice", "tool_usage_count"}

\* C27: the tool step sets rag_context to the text made of the tool's
\* result, sets tool_choice to "none", adds exactly 1 to tool_usage_count
\* and leaves every other field of the Run State unchanged; the think step
\* that follows keeps that context, performing no retrieval.
C27_ToolStep ==
    [][/\ pc = "tool_node" =>
            /\ \E result \in ToolResults :
                   state'.rag_context = ToolOutput(state.tool_choice, result)
            /\ state'.rag_context # "retrieved"
            /\ state'.tool_choice = "none"
            /\ state'.tool_usage_count = state.tool_usage_count + 1
            /\ \A k \in DOMAIN state \ {"rag_context", "tool_choice", "tool_usage_count"} :
                   state'[k] = state[k]
       /\ (pc = "think" /\ IsToolUpdate(node_output)) =>
            state'.rag_context = node_output.rag_context]_vars

\* a think step that followed a tool step whose tool returned nothing
C27_Witness ==
    /\ pc = "lesson"
    /\ state.rag_context = ToolOutput("sql_db", "")
    /\ state.tool_usage_count = 1
    /\ IsToolUpdate(node_output) = FALSE

\* what generate_code_node returns when the code generator has failed
FailedGeneration ==
    generate_code_node(state, forward([raises |-> TRUE, files |-> EmptyMap,
                                       commands |-> <<>>]))

\* C35: when the code generator fails or its output cannot be parsed,
\* generate_code returns no files and no commands without raising, and the
\* run goes on: to execute, and from there to reflect while fewer than
\* three cycles were made, else to synthesize.
C35_GenerationFailureContained ==
    /\ [](/\ pc # "aborted"
          /\ FailedGeneration.files = EmptyMap
          /\ FailedGeneration.commands = <<>>)
    /\ [][/\ pc = "generate_code" => pc' = "execute"
          /\ (pc = "execute" /\ state.commands = <<>>) =>
                 /\ ~state'.is_solved
                 /\ pc' = IF state.iteration < IterationLimit
                          THEN "reflect" ELSE "synthesize"]_vars

\* the third cycle has ended without commands, after two without: the run
\* is on its way to synthesize with two reflections more
C35_Witness ==
    /\ pc = "synthesize"
    /\ state.commands = <<>>
    /\ state.files = EmptyMap
    /\ state.iteration = IterationLimit
    /\ ~state.is_solved
    /\ refl_contributed = 2

\* C37: after every step the state the caller has accumulated from the
\* streamed step outputs equals the engine's Run State, field by field.
C37_CallerHasRunState ==
    caller.on =>
        \A k \in DOMAIN caller.current_state : caller.current_state[k] = state[k]

\* the run started on channels without reflections: the thread's first
\* run, or any run of a graph without checkpointer
FreshRun == turn = 1 \/ ~checkpointer

\* how often reflect has run in the current run
Reflected == Cardinality({ i \in DOMAIN visited : visited[i] = "reflect" })

\* C38: in a run started from a fresh state, at every entry to execute the
\* number of reflections is iteration minus 1; reflect runs at most twice
\* per run and the final state has at most two reflections.
C38_ReflectionsFollowIteration ==
    FreshRun =>
        /\ pc = "execute" => Len(state.reflections) = state.iteration - 1
        /\ Len(state.reflections) = Reflected
        /\ Reflected <= 2

\* the third entry to execute of a first run, behind two reflections
C38_Witness ==
    /\ FreshRun
    /\ pc = "execute"
    /\ state.iteration = IterationLimit
    /\ Len(state.reflections) = 2
    /\ Reflected = 2

\* C39: whenever the engine goes from think directly to lesson, the state
\* think has written has is_solved true and the decision's response, or
\* the fallback message in its place, whatever the tool_choice.
C39_DirectAnswerKept ==
    [][(pc = "think" /\ pc' = "lesson") =>
          /\ state'.is_solved
          /\ state'.response \in {decision'.response, FallbackResponse}]_vars

\* C28: along a run no step decreases iteration or tool_usage_count;
\* iteration grows by exactly 1 on each generate_code step and on no other
\* step, tool_usage_count by exactly 1 on each tool step and on no other.
C28_Counters ==
    [][pc # "done" =>
          /\ state'.iteration =
                 state.iteration + (IF pc = "generate_code" THEN 1 ELSE 0)
          /\ state'.tool_usage_count =
                 state.tool_usage_count + (IF pc = "tool_node" THEN 1 ELSE 0)]_vars

\* a run in its second code cycle after three tool calls
C28_Witness ==
    /\ pc = "execute"
    /\ state.iteration = 2
    /\ state.tool_usage_count = 3
    /\ Len(state.reflections) >= 1

----------------------------------------------------------------------------
(* The checkpoint store: values and their serialization *)

\* Python values, tagged with their type
PStr(x) == [py |-> "str", v |-> x]
PInt(x) == [py |-> "int", v |-> x]
PList(x) == [py |-> "list", v |-> x]
PTuple(x) == [py |-> "tuple", v |-> x]
PDict(x) == [py |-> "dict", v |-> x]

\* JSON text, as the document it denotes
JString(x) == [js |-> "string", v |-> x]
JNumber(x) == [js |-> "number", v |-> x]
JArray(x) == [js |-> "array", v |-> x]
JObject(x) == [js |-> "object", v |-> x]

RECURSIVE JsonEncode(_)
\* json.dumps, which langchain's dumps calls: lists and tuples both become
\* arrays, dicts become objects
JsonEncode(p) ==
    CASE p.py = "str" -> JString(p.v)
      [] p.py = "int" -> JNumber(p.v)
      [] p.py = "list" -> JArray([i \in DOMAIN p.v |-> JsonEncode(p.v[i])])
      [] p.py = "tuple" -> JArray([i \in DOMAIN p.v |-> JsonEncode(p.v[i])])
      [] p.py = "dict" -> JObject([k \in DOMAIN p.v |-> JsonEncode(p.v[k])])

RECURSIVE JsonDecode(_)
\* json.loads, which langchain's loads calls: arrays become lists, objects
\* become dicts
JsonDecode(j) ==
    CASE j.js = "string" -> PStr(j.v)
      [] j.js = "number" -> PInt(j.v)
      [] j.js = "array" -> PList([i \in DOMAIN j.v |-> JsonDecode(j.v[i])])
      [] j.js = "object" -> PDict([k \in DOMAIN j.v |-> JsonDecode(j.v[k])])

\* langchain_core.load dumps / loads of a checkpoint
dumps(p) == JsonEncode(p)
loads(j) == JsonDecode(j)

\* a Python value is falsy when it is an empty container
Truthy(p) == ~(p.py \in {"dict", "list", "tuple"} /\ DOMAIN p.v = {})

\* metadata_data with the emptiness test the wrong way round
metadata_dumps_dropped(metadata) ==
    IF ~Truthy(metadata) THEN JsonEncode(metadata) ELSE JObject(EmptyMap)

\* metadata_data as put writes it: json.dumps(metadata) if metadata else "{}"
metadata_dumps(metadata) ==
    IF Truthy(metadata) THEN JsonEncode(metadata) ELSE JObject(EmptyMap)

\* metadata as get_tuple reads it; put never writes an empty text
metadata_loads(meta_data) == JsonDecode(meta_data)

----------------------------------------------------------------------------
(* The checkpoint store: inputs *)

Threads == {"t1", "t2"}
Namespaces == {""}
CheckpointIds == {"c1", "c2"}
NoId == ""

\* what is put: the Run State a checkpoint holds in channel_values, and
\* the metadata that goes with it
PayloadFull ==
    [ values |->
        PDict([k \in {"files", "response", "citations"} |->
                  CASE k = "files" -> PDict([f \in {"a.py"} |-> PStr("print(1)")])
                    [] k = "response" -> PStr("2")
                    [] k = "citations" -> PList(<<PStr("doc.pdf")>>)]),
      metadata |->
        PDict([k \in {"source", "step"} |->
                  IF k = "source" THEN PStr("loop") ELSE PInt(1)]) ]

PayloadEmpty ==
    [ values |->
        PDict([k \in {"files", "response", "citations"} |->
                  CASE k = "files" -> PDict(EmptyMap)
                    [] k = "response" -> PStr("")
                    [] k = "citations" -> PList(<<>>)]),
      metadata |-> PDict(EmptyMap) ]

Payloads == {PayloadFull, PayloadEmpty}

\* the Run State of each thread's own run
OwnPayload(thread_id) == IF thread_id = "t1" THEN PayloadFull ELSE PayloadEmpty

Tasks == {"task1", "task2"}

\* a write of a task: the channel and the value written to it
Write(channel, value) == [channel |-> channel, value |-> value]

\* the writes a task hands to put_writes: none, or a write to files followed
\* by a write to response
WriteBatches ==
    { <<>>,
      <<Write("files", PDict([f \in {"a.py"} |-> PStr("print(1)")])),
        Write("response", PStr("2"))>> }

\* who calls put_writes: two tasks of thread t1 at checkpoint c1, a task of
\* t1 at checkpoint c2, and a task of thread t2 at its checkpoint c1
WriteCalls ==
    { [thread_id |-> "t1", checkpoint_ns |-> "", checkpoint_id |-> "c1", task_id |-> "task1"],
      [thread_id |-> "t1", checkpoint_ns |-> "", checkpoint_id |-> "c1", task_id |-> "task2"],
      [thread_id |-> "t1", checkpoint_ns |-> "", checkpoint_id |-> "c2", task_id |-> "task1"],
      [thread_id |-> "t2", checkpoint_ns |-> "", checkpoint_id |-> "c1", task_id |-> "task1"] }

\* the order of checkpoint ids as strings
IdRank(id) == CASE id = "c1" -> 1 [] id = "c2" -> 2 [] OTHER -> 0

\* the checkpoint langgraph hands to put
Checkpoint(id, values) ==
    PDict([k \in {"v", "id", "channel_values"} |->
              CASE k = "v" -> PInt(1)
                [] k = "id" -> PStr(id)
                [] k = "channel_values" -> values])

----------------------------------------------------------------------------
(* The checkpoints table *)

SameKey(r, q) ==
    /\ r.thread_id = q.thread_id
    /\ r.checkpoint_ns = q.checkpoint_ns
    /\ r.checkpoint_id = q.checkpoint_id

\* FROM checkpoints FINAL on ReplacingMergeTree(created_at) ordered by
\* (thread_id, checkpoint_ns, checkpoint_id): of the rows with one key the
\* one with the greatest created_at stays, the last inserted among equals
Final(tbl) ==
    { i \in DOMAIN tbl :
        \A j \in DOMAIN tbl :
            (j # i /\ SameKey(tbl[i], tbl[j])) =>
                \/ tbl[j].created_at < tbl[i].created_at
                \/ tbl[j].created_at = tbl[i].created_at /\ j < i }

\* WHERE thread_id = .. AND checkpoint_ns = .. AND checkpoint_id = ..
SelectById(tbl, thread_id, checkpoint_ns, checkpoint_id) ==
    { i \in Final(tbl) :
        /\ tbl[i].thread_id = thread_id
        /\ tbl[i].checkpoint_ns = checkpoint_ns
        /\ tbl[i].checkpoint_id = checkpoint_id }

\* the latest query without its thread_id condition
SelectLatest_any_thread(tbl, thread_id, checkpoint_ns) ==
    LET mine == { i \in Final(tbl) : tbl[i].checkpoint_ns = checkpoint_ns }
    IN  { i \in mine : \A j \in mine : tbl[j].created_at <= tbl[i].created_at }

\* WHERE thread_id = .. AND checkpoint_ns = .. ORDER BY created_at DESC:
\* the rows that may come first; created_at has whole seconds, and the
\* order among rows of one second is not determined
SelectLatest(tbl, thread_id, checkpoint_ns) ==
    LET mine == { i \in Final(tbl) :
                    /\ tbl[i].thread_id = thread_id
                    /\ tbl[i].checkpoint_ns = checkpoint_ns }
    IN  { i \in mine : \A j \in mine : tbl[j].created_at <= tbl[i].created_at }

\* the rows written for a thread and namespace, in the order of the puts
RowsOf(tbl, thread_id, checkpoint_ns) ==
    { i \in DOMAIN tbl :
        /\ tbl[i].thread_id = thread_id
        /\ tbl[i].checkpoint_ns = checkpoint_ns }

Max(S) == CHOOSE x \in S : \A y \in S : y <= x

RECURSIVE OrderBy(_, _)
\* ORDER BY key ASC over the rows S: every order the query may return the
\* rows in; the order among rows of equal key is not determined
OrderBy(S, key) ==
    IF S = {} THEN {<<>>}
    ELSE UNION { { <<i>> \o rest : rest \in OrderBy(S \ {i}, key) } :
                 i \in { m \in S : \A j \in S : key[m] <= key[j] } }

\* the writes query without its checkpoint_id condition
SelectWrites_any_checkpoint(wtbl, thread_id, checkpoint_ns, checkpoint_id) ==
    LET mine == { i \in DOMAIN wtbl :
                    /\ wtbl[i].thread_id = thread_id
                    /\ wtbl[i].checkpoint_ns = checkpoint_ns }
    IN  OrderBy(mine, [i \in mine |-> wtbl[i].idx])

\* FROM checkpoint_writes WHERE thread_id = .. AND checkpoint_ns = .. AND
\* checkpoint_id = .. ORDER BY idx ASC
SelectWrites(wtbl, thread_id, checkpoint_ns, checkpoint_id) ==
    LET mine == { i \in DOMAIN wtbl :
                    /\ wtbl[i].thread_id = thread_id
                    /\ wtbl[i].checkpoint_ns = checkpoint_ns
                    /\ wtbl[i].checkpoint_id = checkpoint_id }
    IN  OrderBy(mine, [i \in mine |-> wtbl[i].idx])

\* the pending_writes get_tuple builds from the rows of the writes query
PendingWrites(wtbl, order) ==
    [n \in DOMAIN order |->
        [ task_id |-> wtbl[order[n]].task_id,
          channel |-> wtbl[order[n]].channel,
          value |-> loads(wtbl[order[n]].blob) ]]

\* FROM checkpoints FINAL WHERE thread_id = .. AND checkpoint_ns = ..
\* [AND checkpoint_id < before] ORDER BY created_at DESC
SelectList(tbl, thread_id, checkpoint_ns, before_id) ==
    LET mine == { i \in Final(tbl) :
                    /\ tbl[i].thread_id = thread_id
                    /\ tbl[i].checkpoint_ns = checkpoint_ns
                    /\ before_id # "" =>
                           IdRank(tbl[i].checkpoint_id) < IdRank(before_id) }
    IN  OrderBy(mine, [i \in mine |-> 0 - tbl[i].created_at])

\* LIMIT n
Limit(seq, n) == SubSeq(seq, 1, IF Len(seq) < n THEN Len(seq) ELSE n)

\* Python's None, and a result that is one
None == [found |-> FALSE]

\* the CheckpointTuple get_tuple and list build from a row they selected
CheckpointTuple(thread_id, checkpoint_ns, row, pending_writes) ==
    [ found |-> TRUE,
      config |-> [thread_id |-> thread_id,
                  checkpoint_ns |-> checkpoint_ns,
                  checkpoint_id |-> row.checkpoint_id],
      checkpoint |-> loads(row.checkpoint_data),
      metadata |-> metadata_loads(row.metadata_data),
      parent_config |->
          IF row.parent_checkpoint_id # ""
          THEN [thread_id |-> thread_id,
                checkpoint_ns |-> checkpoint_ns,
                checkpoint_id |-> row.parent_checkpoint_id]
          ELSE None,
      pending_writes |-> pending_writes ]

----------------------------------------------------------------------------
(* Calls of the checkpointer *)

\* the config langgraph passes to put names the checkpoint the thread was at
ParentId(tbl, thread_id, checkpoint_ns) ==
    IF RowsOf(tbl, thread_id, checkpoint_ns) = {} THEN ""
    ELSE tbl[Max(RowsOf(tbl, thread_id, checkpoint_ns))].checkpoint_id

\* put: the row inserted names as parent the checkpoint id of the config
put_row(thread_id, checkpoint_ns, id, parent_id, p) ==
    /\ Len(table) < MaxRows
    /\    LET checkpoint == Checkpoint(id, p.values)
              metadata == p.metadata
              row == [ thread_id |-> thread_id,
                       checkpoint_ns |-> checkpoint_ns,
                       checkpoint_id |-> id,
                       parent_checkpoint_id |-> parent_id,
                       checkpoint_data |-> dumps(checkpoint),
                       metadata_data |-> metadata_dumps(metadata),
                       created_at |-> now ]
          IN  /\ table' = Append(table, row)
              /\ put_log' = Append(put_log,
                                   [ thread_id |-> thread_id,
                                     checkpoint_ns |-> checkpoint_ns,
                                     checkpoint_id |-> id,
                                     checkpoint |-> checkpoint,
                                     metadata |-> metadata ])
              /\ ret' = [ op |-> "put",
                          config |-> [thread_id |-> thread_id,
                                      checkpoint_ns |-> checkpoint_ns,
                                      checkpoint_id |-> id] ]
    /\ UNCHANGED <<writes, writes_log, now>>
    /\ UNCHANGED wfvars

put(thread_id, checkpoint_ns, id, p) ==
    put_row(thread_id, checkpoint_ns, id, ParentId(table, thread_id, checkpoint_ns), p)

\* put called with any thread, checkpoint id and payload
Put ==
    \E thread_id \in Threads, checkpoint_ns \in Namespaces,
       id \in CheckpointIds, p \in Payloads :
       put(thread_id, checkpoint_ns, id, p)

\* put called by two runs, each checkpointing its own Run State
PutOwn ==
    \E thread_id \in Threads, checkpoint_ns \in Namespaces, id \in CheckpointIds :
       put(thread_id, checkpoint_ns, id, OwnPayload(thread_id))

\* enumerate numbering every write 0
enumerate_from_nothing(n) == 0

\* for idx, (channel, value) in enumerate(writes): the index of the n-th
\* write of the call
enumerate(n) == n - 1

\* put_writes: one row per write, numbered from 0 within the call; nothing
\* is inserted for an empty list of writes
PutWrites ==
    /\ Len(writes) < MaxWrites
    /\ \E target \in WriteCalls, written_batch \in WriteBatches :
          LET thread_id == target.thread_id
              checkpoint_ns == target.checkpoint_ns
              checkpoint_id == target.checkpoint_id
              task_id == target.task_id
              rows == [n \in DOMAIN written_batch |->
                          [ thread_id |-> thread_id,
                            checkpoint_ns |-> checkpoint_ns,
                            checkpoint_id |-> checkpoint_id,
                            task_id |-> task_id,
                            idx |-> enumerate(n),
                            channel |-> written_batch[n].channel,
                            blob |-> dumps(written_batch[n].value) ]]
              written == [n \in DOMAIN written_batch |->
                          [ thread_id |-> thread_id,
                            checkpoint_ns |-> checkpoint_ns,
                            checkpoint_id |-> checkpoint_id,
                            task_id |-> task_id,
                            pos |-> n,
                            channel |-> written_batch[n].channel,
                            value |-> written_batch[n].value ]]
          IN  /\ writes' = IF rows # <<>> THEN writes \o rows ELSE writes
              /\ writes_log' = writes_log \o written
              /\ ret' = [ op |-> "put_writes",
                          config |-> [thread_id |-> thread_id,
                                      checkpoint_ns |-> checkpoint_ns,
                                      checkpoint_id |-> checkpoint_id] ]
    /\ UNCHANGED <<table, put_log, now>>
    /\ UNCHANGED wfvars

GetTuple ==
    /\ \E thread_id \in Threads, checkpoint_ns \in Namespaces,
          checkpoint_id \in CheckpointIds \cup {NoId} :
          LET rows == IF checkpoint_id # NoId
                      THEN SelectById(table, thread_id, checkpoint_ns, checkpoint_id)
                      ELSE SelectLatest(table, thread_id, checkpoint_ns)
              config == [thread_id |-> thread_id,
                         checkpoint_ns |-> checkpoint_ns,
                         checkpoint_id |-> checkpoint_id]
          IN  \/ /\ rows = {}
                 /\ ret' = [op |-> "get_tuple", config |-> config, res |-> None]
              \/ \E i \in rows :
                    \E order \in SelectWrites(writes, thread_id, checkpoint_ns,
                                               table[i].checkpoint_id) :
                        ret' = [op |-> "get_tuple", config |-> config,
                                rows |-> order,
                                res |-> CheckpointTuple(thread_id, checkpoint_ns, table[i],
                                                        PendingWrites(writes, order))]
    /\ UNCHANGED <<table, put_log, writes, writes_log, now>>
    /\ UNCHANGED wfvars

\* list: the checkpoints of a thread, newest first, at most limit of them
\* (100 when no limit is given), optionally only those before an id
List ==
    /\ \E thread_id \in Threads, checkpoint_ns \in Namespaces,
          before_id \in CheckpointIds \cup {NoId}, limit \in {0, 1} :
          \E order \in SelectList(table, thread_id, checkpoint_ns, before_id) :
              ret' = [ op |-> "list",
                       config |-> [thread_id |-> thread_id,
                                   checkpoint_ns |-> checkpoint_ns,
                                   checkpoint_id |-> NoId],
                       before |-> before_id,
                       limit |-> limit,
                       res |-> [n \in DOMAIN Limit(order, IF limit # 0 THEN limit ELSE 100) |->
                                   CheckpointTuple(thread_id, checkpoint_ns,
                                                   table[order[n]], <<>>)] ]
    /\ UNCHANGED <<table, put_log, writes, writes_log, now>>
    /\ UNCHANGED wfvars

\* a second passes on the database clock
Tick ==
    /\ now < MaxTime
    /\ now' = now + 1
    /\ UNCHANGED <<table, put_log, writes, writes_log, ret>>
    /\ UNCHANGED wfvars

CkptNext ==
    \/ Put
    \/ GetTuple
    \/ Tick

\* the store exists when the graph was compiled with the checkpointer
CkptInit == Init /\ checkpointer

CkptSpec == CkptInit /\ [][CkptNext]_vars

StoreNext ==
    \/ PutOwn
    \/ PutWrites
    \/ GetTuple
    \/ List

StoreSpec == CkptInit /\ [][StoreNext]_vars

\* put as langgraph calls it: the ids it makes grow with time, so a new
\* checkpoint of a thread has an id above the ids the thread already has
PutInOrder ==
    \E thread_id \in Threads, checkpoint_ns \in Namespaces, id \in CheckpointIds :
       /\ \A i \in RowsOf(table, thread_id, checkpoint_ns) :
              IdRank(table[i].checkpoint_id) < IdRank(id)
       /\ put(thread_id, checkpoint_ns, id, OwnPayload(thread_id))

HistoryNext ==
    \/ PutInOrder
    \/ List
    \/ Tick

HistorySpec == CkptInit /\ [][HistoryNext]_vars

\* the engine starts a run on a thread by loading its latest checkpoint
Resume ==
    /\ \E thread_id \in Threads, checkpoint_ns \in Namespaces :
          LET rows == SelectLatest(table, thread_id, checkpoint_ns)
              config == [thread_id |-> thread_id,
                         checkpoint_ns |-> checkpoint_ns,
                         checkpoint_id |-> NoId]
          IN  \/ /\ rows = {}
                 /\ ret' = [op |-> "get_tuple", config |-> config, res |-> None]
              \/ \E i \in rows :
                    ret' = [op |-> "get_tuple", config |-> config,
                            res |-> CheckpointTuple(thread_id, checkpoint_ns, table[i], <<>>)]
    /\ UNCHANGED <<table, put_log, writes, writes_log, now>>
    /\ UNCHANGED wfvars

\* the engine holds the config of the checkpoint it loaded or wrote last
Holds(thread_id, checkpoint_ns) ==
    /\ ret.op \in {"get_tuple", "put"}
    /\ ret.config.thread_id = thread_id
    /\ ret.config.checkpoint_ns = checkpoint_ns

HeldId ==
    IF ret.op = "put" THEN ret.config.checkpoint_id
    ELSE IF ret.res.found THEN ret.res.config.checkpoint_id
    ELSE ""

\* the engine writes the checkpoint of a step: put gets the config held,
\* and a checkpoint whose id is above the ids written before
PutNext ==
    \E thread_id \in Threads, checkpoint_ns \in Namespaces, id \in CheckpointIds :
       /\ Holds(thread_id, checkpoint_ns)
       /\ \A i \in RowsOf(table, thread_id, checkpoint_ns) :
              IdRank(table[i].checkpoint_id) < IdRank(id)
       /\ put_row(thread_id, checkpoint_ns, id, HeldId, OwnPayload(thread_id))

ChainNext ==
    \/ Resume
    \/ PutNext
    \/ Tick

ChainSpec == CkptInit /\ [][ChainNext]_vars

----------------------------------------------------------------------------
(* Properties of the checkpoint store *)

\* the put calls made for a key, by their position in put_log
PutsOf(thread_id, checkpoint_ns, checkpoint_id) ==
    { k \in DOMAIN put_log :
        /\ put_log[k].thread_id = thread_id
        /\ put_log[k].checkpoint_ns = checkpoint_ns
        /\ put_log[k].checkpoint_id = checkpoint_id }

\* C9: get_tuple by thread id and checkpoint id returns the checkpoint and
\* the metadata that were put under that id, whatever else was put for the
\* same or other threads.
C9_RoundTrip ==
    (ret.op = "get_tuple" /\ ret.config.checkpoint_id # NoId) =>
        LET puts == PutsOf(ret.config.thread_id, ret.config.checkpoint_ns,
                           ret.config.checkpoint_id)
        IN  IF puts = {} THEN ~ret.res.found
            ELSE /\ ret.res.found
                 /\ ret.res.checkpoint = put_log[Max(puts)].checkpoint
                 /\ ret.res.metadata = put_log[Max(puts)].metadata
                 /\ ret.res.config = ret.config

\* the first of two checkpoints was read back by its id, files, response,
\* citations and metadata included
C9_Witness ==
    /\ ret.op = "get_tuple"
    /\ Len(put_log) = 2
    /\ ret.config = [thread_id |-> "t1", checkpoint_ns |-> "", checkpoint_id |-> "c1"]
    /\ put_log[1].thread_id = "t1" /\ put_log[1].checkpoint_id = "c1"
    /\ put_log[2].checkpoint_id = "c1" => put_log[2].thread_id = "t2"
    /\ put_log[1].metadata # PDict(EmptyMap)
    /\ ret.res.found
    /\ ret.res.checkpoint.v["channel_values"].v["files"].v # EmptyMap

\* C10: get_tuple without a checkpoint id returns the checkpoint most
\* recently put for that thread and namespace.
C10_LatestIsMostRecent ==
    (ret.op = "get_tuple" /\ ret.config.checkpoint_id = NoId) =>
        LET rows == RowsOf(table, ret.config.thread_id, ret.config.checkpoint_ns)
        IN  IF rows = {} THEN ~ret.res.found
            ELSE /\ ret.res.found
                 /\ ret.res.config.checkpoint_id = table[Max(rows)].checkpoint_id
                 /\ ret.res.checkpoint = put_log[Max(rows)].checkpoint

\* the writes handed to put_writes for a checkpoint, in the order written
WrittenFor(thread_id, checkpoint_ns, checkpoint_id) ==
    SelectSeq(writes_log,
              LAMBDA w : /\ w.thread_id = thread_id
                         /\ w.checkpoint_ns = checkpoint_ns
                         /\ w.checkpoint_id = checkpoint_id)

\* a write as get_tuple reports it
AsPending(w) == [task_id |-> w.task_id, channel |-> w.channel, value |-> w.value]

\* C11 as stated: get_tuple returns the writes recorded with put_writes
\* against the returned checkpoint id, all of them and no others, in the
\* order in which they were written.
C11_AsStated ==
    (ret.op = "get_tuple" /\ ret.res.found) =>
        LET written == WrittenFor(ret.config.thread_id, ret.config.checkpoint_ns,
                                  ret.res.config.checkpoint_id)
        IN  ret.res.pending_writes = [n \in DOMAIN written |-> AsPending(written[n])]

\* C11 amended: get_tuple returns the writes recorded with put_writes
\* against the returned checkpoint id, all of them and no others, sorted by
\* their position within their put_writes call; the writes of one call keep
\* their order, the order among writes of different calls at the same
\* position is not determined.
C11_Amended ==
    (ret.op = "get_tuple" /\ ret.res.found) =>
        LET written == WrittenFor(ret.config.thread_id, ret.config.checkpoint_ns,
                                  ret.res.config.checkpoint_id)
            pending == ret.res.pending_writes
        IN  /\ Len(pending) = Len(written)
            /\ \E f \in Permutations(1..Len(written)) :
                   /\ \A n \in DOMAIN pending : pending[n] = AsPending(written[f[n]])
                   /\ \A a, b \in DOMAIN pending :
                          a < b => written[f[a]].pos <= written[f[b]].pos

\* two tasks wrote two values each against checkpoint c1 of thread t1, and
\* get_tuple returned the four writes with the two first writes ahead of
\* the two second ones
C11_Witness ==
    /\ ret.op = "get_tuple"
    /\ ret.res.found
    /\ ret.config.thread_id = "t1"
    /\ ret.res.config.checkpoint_id = "c1"
    /\ Len(ret.res.pending_writes) = 4
    /\ ret.res.pending_writes[1].task_id = "task1"
    /\ ret.res.pending_writes[2].task_id = "task2"
    /\ ret.res.pending_writes[2].channel = "files"
    /\ ret.res.pending_writes[4].channel = "response"

\* what was last put under a key
LastPut(thread_id, checkpoint_ns, checkpoint_id) ==
    put_log[Max(PutsOf(thread_id, checkpoint_ns, checkpoint_id))]

\* a tuple returned to a thread holds a checkpoint put by that thread
OwnTuple(thread_id, checkpoint_ns, t) ==
    /\ PutsOf(thread_id, checkpoint_ns, t.config.checkpoint_id) # {}
    /\ t.config.thread_id = thread_id
    /\ t.checkpoint = LastPut(thread_id, checkpoint_ns, t.config.checkpoint_id).checkpoint
    /\ t.metadata = LastPut(thread_id, checkpoint_ns, t.config.checkpoint_id).metadata
    /\ t.parent_config # None => t.parent_config.thread_id = thread_id

\* C17: whatever the interleaving of put and put_writes calls of runs with
\* distinct thread ids, get_tuple and list for a thread return only
\* checkpoints and pending writes written for that thread.
C17_ThreadIsolation ==
    /\ (ret.op = "get_tuple" /\ ret.res.found) =>
          LET written == WrittenFor(ret.config.thread_id, ret.config.checkpoint_ns,
                                    ret.res.config.checkpoint_id)
          IN  /\ OwnTuple(ret.config.thread_id, ret.config.checkpoint_ns, ret.res)
              /\ Len(ret.res.pending_writes) = Len(written)
              /\ \A n \in DOMAIN ret.res.pending_writes :
                     \E k \in DOMAIN written :
                         ret.res.pending_writes[n] = AsPending(written[k])
    /\ ret.op = "list" =>
          \A n \in DOMAIN ret.res :
              OwnTuple(ret.config.thread_id, ret.config.checkpoint_ns, ret.res[n])

\* both threads put a checkpoint c1 and wrote pending writes against it, and
\* get_tuple for t1 returned t1's checkpoint with t1's two writes
C17_Witness ==
    /\ ret.op = "get_tuple"
    /\ ret.config.thread_id = "t1"
    /\ ret.res.found
    /\ ret.res.config.checkpoint_id = "c1"
    /\ PutsOf("t2", "", "c1") # {}
    /\ Len(WrittenFor("t2", "", "c1")) = 2
    /\ Len(ret.res.pending_writes) = 2
    /\ ret.res.checkpoint.v["channel_values"] = PayloadFull.values


\* the rows of a thread, oldest first
RECURSIVE Ascending(_)
Ascending(S) == IF S = {} THEN <<>> ELSE Ascending(S \ {Max(S)}) \o <<Max(S)>>

Reverse(seq) == [n \in DOMAIN seq |-> seq[Len(seq) + 1 - n]]

\* the checkpoint ids of a thread created before the checkpoint with the
\* given id (all of them when no id is given), newest first
CreatedBefore(thread_id, checkpoint_ns, before_id) ==
    LET rows == RowsOf(table, thread_id, checkpoint_ns)
        bound == { i \in rows : table[i].checkpoint_id = before_id }
        mine == IF before_id = NoId THEN rows
                ELSE { i \in rows : \A b \in bound : i < b }
        asc == Ascending(mine)
    IN  Reverse([n \in DOMAIN asc |-> table[asc[n]].checkpoint_id])

\* C21: list for a thread without a limit returns exactly the checkpoints
\* of the thread created before the given checkpoint, newest first, and all
\* the checkpoints of the thread, newest first, when no bound is given.
C21_ListNewestFirst ==
    (/\ ret.op = "list"
     /\ ret.limit = 0
     /\ \/ ret.before = NoId
        \/ \E i \in RowsOf(table, ret.config.thread_id, ret.config.checkpoint_ns) :
               table[i].checkpoint_id = ret.before)
    => [n \in DOMAIN ret.res |-> ret.res[n].config.checkpoint_id]
         = CreatedBefore(ret.config.thread_id, ret.config.checkpoint_ns, ret.before)

RECURSIVE Chain(_, _, _, _)
\* the checkpoint ids met following the parent links from a checkpoint, at
\* most n of them
Chain(thread_id, checkpoint_ns, id, n) ==
    LET rows == SelectById(table, thread_id, checkpoint_ns, id)
    IN  IF n = 0 \/ rows = {} THEN <<>>
        ELSE <<id>> \o Chain(thread_id, checkpoint_ns,
                             table[CHOOSE i \in rows : TRUE].parent_checkpoint_id, n - 1)

\* C30: each checkpoint written by put names as parent the checkpoint that
\* was current for its thread when it was written, so the parent links
\* followed from the current checkpoint of a thread visit every checkpoint
\* of the thread exactly once, in reverse creation order.
C30_ParentChain ==
    \A thread_id \in Threads, checkpoint_ns \in Namespaces :
        \A i \in SelectLatest(table, thread_id, checkpoint_ns) :
            Chain(thread_id, checkpoint_ns, table[i].checkpoint_id, Len(table) + 1)
              = CreatedBefore(thread_id, checkpoint_ns, NoId)

\* rows i < j of checkpoint_writes were inserted by one put_writes call
SameCall(i, j) == \A k \in (i + 1)..j : writes_log[k].pos # 1

SameCheckpoint(r, q) ==
    /\ r.thread_id = q.thread_id
    /\ r.checkpoint_ns = q.checkpoint_ns
    /\ r.checkpoint_id = q.checkpoint_id

\* C31 as stated: a pending write recorded later against a checkpoint, in
\* the same or a later put_writes call, by the same or another task, has a
\* larger sequence index than every write recorded earlier against it.
C31_AsStated ==
    \A i, j \in DOMAIN writes :
        (i < j /\ SameCheckpoint(writes[i], writes[j])) => writes[i].idx < writes[j].idx

\* C31 amended: the sequence index of a pending write is its position
\* within its put_writes call, counted from 0: it increases in write order
\* within one call, and starts again at 0 in every call, so writes of
\* different calls against one checkpoint need not have increasing indexes.
C31_Amended ==
    /\ \A i \in DOMAIN writes : writes[i].idx = writes_log[i].pos - 1
    /\ \A i, j \in DOMAIN writes :
           (i < j /\ SameCall(i, j)) =>
               /\ SameCheckpoint(writes[i], writes[j])
               /\ writes[i].idx < writes[j].idx

\* C40: the pending writes get_tuple returns for a checkpoint hold each
\* (task id, sequence index) pair at most once, also after put_writes was
\* called again for the same checkpoint and task.
C40_WritesReturnedOnce ==
    (ret.op = "get_tuple" /\ ret.res # None) =>
        \A m, n \in DOMAIN ret.rows :
            (/\ writes[ret.rows[m]].task_id = writes[ret.rows[n]].task_id
             /\ writes[ret.rows[m]].idx = writes[ret.rows[n]].idx) => m = n

\* two put_writes calls of two writes each against checkpoint c1 of thread t1
C31_Witness ==
    /\ Len(writes) = 4
    /\ \A i \in 1..4 : writes[i].thread_id = "t1" /\ writes[i].checkpoint_id = "c1"
    /\ writes[2].idx = 1
    /\ writes[3].idx = 0
    /\ writes[3].task_id = writes[1].task_id

----------------------------------------------------------------------------
(* The tool dispatcher and the file tools *)

\* text is a sequence of characters; SP, CR and LF are the space, the
\* carriage return and the line feed
Chars == {"a", "SP", "CR"}
Whitespace == {"SP", "CR", "LF"}
Texts(n) == UNION { [1..k -> Chars] : k \in 0..n }
NewTexts == { <<>>, <<"b">> }
Paths == {"f", "missing"}

RECURSIVE ReadText(_)
\* open(path, 'r').read(): universal newlines, CR LF and CR become LF
ReadText(bytes) ==
    IF bytes = <<>> THEN <<>>
    ELSE IF Head(bytes) = "CR"
         THEN IF Len(bytes) >= 2 /\ bytes[2] = "LF"
              THEN <<"LF">> \o ReadText(SubSeq(bytes, 3, Len(bytes)))
              ELSE <<"LF">> \o ReadText(Tail(bytes))
         ELSE <<Head(bytes)>> \o ReadText(Tail(bytes))

\* open(path, 'w').write(text): LF is written as os.linesep, which is LF
WriteText(text) == text

OccursAt(hay, needle, i) ==
    /\ i + Len(needle) - 1 <= Len(hay)
    /\ SubSeq(hay, i, i + Len(needle) - 1) = needle

\* needle in hay
Contains(hay, needle) == \E i \in 1..(Len(hay) + 1) : OccursAt(hay, needle, i)

FirstIndex(hay, needle) ==
    CHOOSE i \in 1..(Len(hay) + 1) :
        /\ OccursAt(hay, needle, i)
        /\ \A j \in 1..(i - 1) : ~OccursAt(hay, needle, j)

\* content.replace(old, new, 1)
ReplaceFirst(content, old, new) ==
    IF ~Contains(content, old) THEN content
    ELSE LET i == FirstIndex(content, old)
         IN  SubSeq(content, 1, i - 1) \o new \o
             SubSeq(content, i + Len(old), Len(content))

RECURSIVE StripLeft(_)
StripLeft(t) ==
    IF t # <<>> /\ Head(t) \in Whitespace THEN StripLeft(Tail(t)) ELSE t

RECURSIVE StripRight(_)
StripRight(t) ==
    IF t # <<>> /\ t[Len(t)] \in Whitespace
    THEN StripRight(SubSeq(t, 1, Len(t) - 1)) ELSE t

\* str.strip()
Strip(t) == StripRight(StripLeft(t))

\* a returned string: the literal text it starts with, and whether the
\* return statement is one that reports a failure
Res(prefix, failure) == [prefix |-> prefix, failure |-> failure]

\* the file a path names
FileAt(file, path) ==
    IF path = "f" THEN file ELSE [exists |-> FALSE, content |-> <<>>]

read_file(file, path) ==
    IF ~FileAt(file, path).exists
    THEN [result |-> Res("Error: File '", TRUE), file |-> file]
    ELSE [result |-> Res("", FALSE), file |-> file]

\* write_file: the directory is created, the file opened and written; an
\* exception (a path that cannot be written) becomes a message
write_file(file, path, content, writable) ==
    IF path = "f" /\ writable
    THEN [result |-> Res("Successfully wrote ", FALSE),
          file |-> [exists |-> TRUE, content |-> WriteText(content)]]
    ELSE [result |-> Res("Error writing file: ", TRUE), file |-> file]

edit_file(file, path, old_text, new_text, writable) ==
    IF ~FileAt(file, path).exists
    THEN [result |-> Res("Error: File '", TRUE), file |-> file]
    ELSE LET content == ReadText(file.content)
         IN  IF ~Contains(content, old_text)
             THEN IF ~Contains(content, Strip(old_text))
                  THEN [result |-> Res("Error: 'old_text' not found in ", TRUE),
                        file |-> file]
                  ELSE [result |-> Res("Error: Exact 'old_text' match failed.", TRUE),
                        file |-> file]
             ELSE IF ~writable
             THEN [result |-> Res("Error editing file: ", TRUE), file |-> file]
             ELSE [result |-> Res("Successfully edited ", FALSE),
                   file |-> [exists |-> TRUE,
                             content |-> WriteText(ReplaceFirst(content, old_text, new_text))]]

list_files(file, outcome) ==
    IF outcome = "fails"
    THEN [result |-> Res("Error: '", TRUE), file |-> file]
    ELSE [result |-> Res("", FALSE), file |-> file]

\* run_command: the output of the command whatever its exit code, or a
\* message when subprocess.run raises (the timeout)
run_command(file, outcome) ==
    IF outcome = "fails"
    THEN [result |-> Res("Error running command: ", TRUE), file |-> file]
    ELSE [result |-> Res("Exit Code: ", FALSE), file |-> file]

\* args_json: text that is not JSON, JSON that is not an object, or an
\* object with its keys
ArgsInvalid == [kind |-> "invalid", obj |-> EmptyMap]
ArgsArray == [kind |-> "array", obj |-> EmptyMap]
ArgsObject(obj) == [kind |-> "object", obj |-> obj]

Has(args, k) == k \in DOMAIN args.obj

ToolNames ==
    { "sql_db", "rag_search", "search_documents", "read_file", "write_file",
      "edit_file", "list_files", "run_command" }

\* the complete argument objects tried for a tool
CompleteArgs(tool_name) ==
    CASE tool_name \in {"sql_db", "rag_search", "search_documents"} ->
            { [k \in {"query"} |-> "q"] }
      [] tool_name = "read_file" ->
            { [k \in {"path"} |-> p] : p \in Paths }
      [] tool_name = "write_file" ->
            { [k \in {"path", "content"} |-> IF k = "path" THEN p ELSE <<"a">>] :
              p \in Paths }
      [] tool_name = "edit_file" ->
            { [k \in {"path", "old_text", "new_text"} |->
                  CASE k = "path" -> p
                    [] k = "old_text" -> <<"a">>
                    [] k = "new_text" -> <<"b">>] : p \in Paths }
      [] tool_name = "list_files" -> { [k \in {"path"} |-> "f"] }
      [] tool_name = "run_command" -> { [k \in {"command"} |-> "ls"] }
      [] OTHER -> {}

ArgsOf(tool_name) ==
    {ArgsInvalid, ArgsArray, ArgsObject(EmptyMap)} \cup
    { ArgsObject(obj) : obj \in CompleteArgs(tool_name) }

\* how the world answers the handler: for sql_db rows, no rows or an error
\* row; for the searches results or none; for write_file and edit_file a
\* writable or an unwritable path; for list_files a directory or not; for
\* run_command an exit code or an exception
Outcomes == {"ok", "empty", "fails"}

Returned(r) == [raised |-> FALSE, result |-> r.result, file |-> r.file]
Raised(file) == [raised |-> TRUE, result |-> Res("", TRUE), file |-> file]

\* the body of the try block of execute_tool
dispatch(tool_name, args, file, outcome) ==
    IF args.kind = "invalid"
    THEN Returned([result |-> Res("ERROR: ", TRUE), file |-> file])
    ELSE IF tool_name \notin ToolNames
    THEN Returned([result |-> Res("ERROR: ", TRUE), file |-> file])
    ELSE IF args.kind # "object"
    THEN Raised(file)
    ELSE CASE tool_name = "sql_db" ->
                 IF ~Has(args, "query")
                 THEN Returned([result |-> Res("ERROR: ", TRUE), file |-> file])
                 ELSE IF outcome = "fails"
                 THEN Returned([result |-> Res("SQL ERROR: ", TRUE), file |-> file])
                 ELSE IF outcome = "empty"
                 THEN Returned([result |-> Res("No results found.", FALSE), file |-> file])
                 ELSE Returned([result |-> Res("[", FALSE), file |-> file])
           [] tool_name \in {"rag_search", "search_documents"} ->
                 IF ~Has(args, "query")
                 THEN Returned([result |-> Res("ERROR: ", TRUE), file |-> file])
                 ELSE IF outcome = "ok"
                 THEN Returned([result |-> Res("", FALSE), file |-> file])
                 ELSE Returned([result |-> Res("No ", FALSE), file |-> file])
           [] tool_name = "read_file" ->
                 IF ~Has(args, "path")
                 THEN Returned([result |-> Res("ERROR: ", TRUE), file |-> file])
                 ELSE Returned(read_file(file, args.obj["path"]))
           [] tool_name = "write_file" ->
                 IF ~Has(args, "path") \/ ~Has(args, "content")
                 THEN Returned([result |-> Res("ERROR: ", TRUE), file |-> file])
                 ELSE Returned(write_file(file, args.obj["path"], args.obj["content"],
                                          outcome # "fails"))
           [] tool_name = "edit_file" ->
                 IF ~Has(args, "path") \/ ~Has(args, "old_text") \/ ~Has(args, "new_text")
                 THEN Returned([result |-> Res("ERROR: ", TRUE), file |-> file])
                 ELSE Returned(edit_file(file, args.obj["path"], args.obj["old_text"],
                                         args.obj["new_text"], outcome # "fails"))
           [] tool_name = "list_files" ->
                 Returned(list_files(file, outcome))
           [] tool_name = "run_command" ->
                 IF ~Has(args, "command")
                 THEN Returned([result |-> Res("ERROR: ", TRUE), file |-> file])
                 ELSE Returned(run_command(file, outcome))

\* execute_tool without its except clause
execute_tool_unguarded(tool_name, args, file, outcome) ==
    dispatch(tool_name, args, file, outcome)

\* execute_tool: an exception of the try block becomes a message
execute_tool(tool_name, args, file, outcome) ==
    LET r == dispatch(tool_name, args, file, outcome)
    IN  IF r.raised
        THEN [raised |-> FALSE, result |-> Res("TOOL EXECUTION ERROR: ", TRUE),
              file |-> r.file]
        ELSE r

ToolUnchanged ==
    /\ UNCHANGED <<state, pc, node_output, decision, turn, checkpointer,
                   logs_contributed, refl_contributed, visited, first_exec, caller>>
    /\ UNCHANGED hostvars
    /\ UNCHANGED ckvars
    /\ UNCHANGED sbvars

\* tool_node calls the dispatcher
ExecuteTool ==
    /\ call.op = "none"
    /\ \E tool_name \in ToolNames \cup {"bogus"}, outcome \in Outcomes :
          \E args \in ArgsOf(tool_name) :
              LET r == execute_tool(tool_name, args, fs, outcome)
              IN  /\ call' = [ op |-> "execute_tool", tool |-> tool_name,
                               args |-> args, outcome |-> outcome,
                               raised |-> r.raised, result |-> r.result,
                               before |-> fs ]
                  /\ fs' = r.file
    /\ ToolUnchanged

\* edit_file called with any target text
EditFile ==
    /\ call.op = "none"
    /\ \E p \in Paths, old_text \in Texts(MaxOld), new_text \in NewTexts,
          writable \in BOOLEAN :
          LET r == edit_file(fs, p, old_text, new_text, writable)
          IN  /\ call' = [ op |-> "edit_file", path |-> p, old_text |-> old_text,
                           new_text |-> new_text, writable |-> writable,
                           result |-> r.result, before |-> fs ]
              /\ fs' = r.file
    /\ ToolUnchanged

ToolNext ==
    \/ ExecuteTool
    \/ EditFile

\* the file exists with some content, or does not exist
ToolInit ==
    /\ InitRun
    /\ store = IF checkpointer THEN "online" ELSE "offline"
    /\ checkpointer
    /\ fs \in {[exists |-> FALSE, content |-> <<>>]} \cup
              { [exists |-> TRUE, content |-> c] : c \in Texts(MaxLen) }

ToolSpec == ToolInit /\ [][ToolNext]_vars

\* C13: execute_tool never raises to its caller: for every tool name, every
\* argument payload and every answer of the handler it returns a string.
C13_NeverRaises ==
    call.op = "execute_tool" =>
        /\ ~call.raised
        /\ call.result.prefix \in STRING

\* the dispatcher was handed JSON that is not an object for a known tool
C13_Witness ==
    /\ call.op = "execute_tool"
    /\ call.tool = "read_file"
    /\ call.args.kind = "array"
    /\ call.result.prefix = "TOOL EXECUTION ERROR: "

\* C14: every failure outcome of the dispatcher is a string that starts
\* with "ERROR: ".
C14_ErrorPrefix ==
    (call.op = "execute_tool" /\ call.result.failure) =>
        call.result.prefix = "ERROR: "

\* C15: edit_file leaves the file unchanged and returns an error whenever
\* old_text does not occur verbatim in the file, and replaces exactly the
\* first occurrence of old_text by new_text, leaving the rest of the file
\* unchanged, when it does (and the file can be written).
C15_EditFile ==
    (call.op = "edit_file" /\ call.path = "f" /\ call.before.exists /\ call.writable) =>
        IF ~Contains(call.before.content, call.old_text)
        THEN fs = call.before /\ call.result.failure
        ELSE /\ ~call.result.failure
             /\ fs.content = ReplaceFirst(call.before.content, call.old_text,
                                          call.new_text)


----------------------------------------------------------------------------
(* Two runs retrieving artifacts into the host directory *)

\* os.path.join(artifact_dir, fname)
ArtifactPath(fname) == <<"sandbox_artifacts", fname>>

HostUnchanged ==
    /\ UNCHANGED <<state, pc, node_output, decision, turn, checkpointer,
                   logs_contributed, refl_contributed, visited, first_exec, caller>>
    /\ UNCHANGED ckvars
    /\ UNCHANGED sbvars
    /\ UNCHANGED <<fs, call, batch, memories, workdir, solutions>>

\* the run's commands ran in its own container; find lists the files of
\* /app that were not among the input files
FindArtifacts(r) ==
    /\ runs[r].pc = "idle"
    /\ \E found \in SUBSET ArtifactNames :
          runs' = [runs EXCEPT ![r].pc = "listing", ![r].found = found]
    /\ UNCHANGED artifact_dir
    /\ HostUnchanged

\* container.get_archive of the next file, then os.path.exists(artifact_dir)
GetArchive(r) ==
    /\ runs[r].pc = "listing"
    /\ \E fname \in runs[r].found, ok \in BOOLEAN :
          runs' = [runs EXCEPT
                      ![r].found = @ \ {fname},
                      ![r].fname = IF ok THEN fname ELSE "",
                      ![r].makedirs = ok /\ ~artifact_dir.exists,
                      ![r].pc = IF ok THEN "extracting" ELSE "listing",
                      ![r].errors = IF ok THEN @ ELSE @ + 1]
    /\ UNCHANGED artifact_dir
    /\ HostUnchanged

\* os.makedirs when the directory was missing, tar.extractall into it and
\* artifacts[fname] = path; makedirs raises when the directory has appeared
\* meanwhile, which is logged as an error entry
Extract(r) ==
    /\ runs[r].pc = "extracting"
    /\ IF runs[r].makedirs /\ artifact_dir.exists
       THEN /\ runs' = [runs EXCEPT ![r].pc = "listing", ![r].fname = "",
                                     ![r].makedirs = FALSE, ![r].errors = @ + 1]
            /\ UNCHANGED artifact_dir
       ELSE /\ artifact_dir' =
                   [ exists |-> TRUE,
                     files |-> (runs[r].fname :> r) @@ artifact_dir.files ]
            /\ runs' = [runs EXCEPT
                           ![r].pc = "listing", ![r].fname = "", ![r].makedirs = FALSE,
                           ![r].artifacts =
                               (runs[r].fname :> ArtifactPath(runs[r].fname)) @@ @]
    /\ HostUnchanged

\* return {"logs": logs, "artifacts": artifacts}; execute_node puts the
\* artifacts into retrieved_files of the run's own Run State
ReturnArtifacts(r) ==
    /\ runs[r].pc = "listing"
    /\ runs[r].found = {}
    /\ runs' = [runs EXCEPT ![r].pc = "returned"]
    /\ UNCHANGED artifact_dir
    /\ HostUnchanged

HostNext ==
    \E r \in Runs :
        \/ FindArtifacts(r)
        \/ GetArchive(r)
        \/ Extract(r)
        \/ ReturnArtifacts(r)

HostSpec == Init /\ [][HostNext]_vars

\* C22: under any interleaving of two runs with distinct thread ids, the
\* file at each artifact path returned to a run is the one that run wrote:
\* the other run has not written or overwritten it.
C22_RunsShareNothing ==
    \A r \in Runs :
        \A fname \in DOMAIN runs[r].artifacts :
            artifact_dir.files[fname] = r

----------------------------------------------------------------------------
(* The sandbox call and its log, entry by entry *)

\* A command is the sequence of its words, which single spaces separate;
\* the word "SP" is white space at its start or end.
\* command lists the generator may hand to execute: programs to run, and
\* installs with the system package manager, which are skipped
BatchCommands ==
    { <<"python3", "a">>, <<"python3", "b">>, <<"apt-get", "install", "x">> }

\* the commands the filter is applied to
FilterCommands ==
    { <<"python3", "a">>,
      <<"SP", "python3", "a">>,
      <<"apt-get", "update">>,
      <<"apt-get", "install", "python3">>,
      <<"apt-get", "install", "gnuplot">>,
      <<"pip", "install", "decimal">>,
      <<"pip", "install", "numpy">>,
      <<"SP", "pip3", "install", "numpy">>,
      <<"pip", "install", "numpy", "--break-system-packages">> }

Seqs(S, n) == UNION { [1..m -> S] : m \in 0..n }

CommandLists == Seqs(BatchCommands, MaxCommands)

FilterLists == Seqs(FilterCommands, MaxCommands)

skip_prefixes ==
    { <<"apt-get", "update">>, <<"apt-get", "install">>,
      <<"pip", "install", "decimal">>, <<"pip3", "install", "decimal">> }

\* cmd_stripped.startswith(p) for one of skip_prefixes
Skipped(cmd) == \E p \in skip_prefixes : OccursAt(Strip(cmd), p, 1)

\* 'pip install' in cmd_stripped or 'pip3 install' in cmd_stripped, and
\* '--break-system-packages' not in cmd_stripped
LacksFlag(cmd) ==
    /\ \/ Contains(Strip(cmd), <<"pip", "install">>)
       \/ Contains(Strip(cmd), <<"pip3", "install">>)
    /\ ~Contains(Strip(cmd), <<"--break-system-packages">>)

\* what the loop appends for a command it does not skip
Appended(cmd) ==
    IF LacksFlag(cmd) THEN Append(Strip(cmd), "--break-system-packages") ELSE cmd

\* filtered_commands: the commands that are not skipped, in order, the pip
\* installs with the flag
filtered_commands(commands) ==
    LET kept == SelectSeq(commands, LAMBDA c : ~Skipped(c))
    IN  [n \in DOMAIN kept |-> Appended(kept[n])]

\* a log entry, with the command it belongs to (0: to none)
CmdEntry(t, m, k) == [type |-> t, marker |-> m, cmd |-> k]

\* log(type, content) handing the entry to the callback only
log_not_appended(b, entry) ==
    [b EXCEPT !.delivered = IF b.on_log THEN Append(@, entry) ELSE @]

\* log(type, content): the entry is appended to logs, then handed to on_log
\* when one was supplied
log(b, entry) ==
    [b EXCEPT !.logs = Append(@, entry),
              !.delivered = IF b.on_log THEN Append(@, entry) ELSE @]

RECURSIVE LogAll(_, _)
LogAll(b, entries) ==
    IF entries = <<>> THEN b ELSE LogAll(log(b, Head(entries)), Tail(entries))

\* what exec_run may return: output on stdout or not, nothing on stderr or
\* text without or with a failure marker, and the exit code
ExecResults ==
    [stdout : BOOLEAN, stderr : {"none", "plain", "marker"}, exit_code : {0, 1}]

\* the entries of a finished command with the exit entry ahead of the output
exec_entries_exit_first(k, res) ==
    <<IF res.exit_code # 0 THEN CmdEntry("error", FALSE, k)
      ELSE CmdEntry("success", FALSE, k)>>
    \o (IF res.stdout THEN <<CmdEntry("stdout", FALSE, k)>> ELSE <<>>)
    \o (IF res.stderr # "none"
        THEN <<CmdEntry("stderr", res.stderr = "marker", k)>> ELSE <<>>)

\* the entries logged after exec_run returned: stdout, stderr, then error
\* for a non-zero exit code and success otherwise
exec_entries(k, res) ==
    (IF res.stdout THEN <<CmdEntry("stdout", FALSE, k)>> ELSE <<>>)
    \o (IF res.stderr # "none"
        THEN <<CmdEntry("stderr", res.stderr = "marker", k)>> ELSE <<>>)
    \o <<IF res.exit_code # 0 THEN CmdEntry("error", FALSE, k)
         ELSE CmdEntry("success", FALSE, k)>>

BatchUnchanged ==
    /\ UNCHANGED <<state, pc, node_output, decision, turn, checkpointer,
                   logs_contributed, refl_contributed, visited, first_exec, caller>>
    /\ UNCHANGED ckvars
    /\ UNCHANGED sbvars
    /\ UNCHANGED <<fs, call, artifact_dir, runs, memories, workdir, solutions>>

\* execute_node calls execute_batch with or without a log callback: the
\* first entry, the entries of the skipped commands, the container started
\* and the files deployed
BatchCall ==
    /\ pc = "execute"
    /\ batch.pc = "idle"
    /\ state.commands # <<>>
    /\ \E on_log \in BOOLEAN, started \in BOOLEAN :
          LET b == [NoBatch EXCEPT !.on_log = on_log,
                                   !.todo = filtered_commands(state.commands)]
              skipped == SelectSeq(state.commands, Skipped)
              init == LogAll(log(b, CmdEntry("system", FALSE, 0)),
                             [n \in DOMAIN skipped |-> CmdEntry("system", FALSE, 0)])
          IN  batch' = IF started
                       THEN [LogAll(init, <<CmdEntry("system", FALSE, 0),
                                            CmdEntry("system", FALSE, 0)>>)
                             EXCEPT !.pc = "commands", !.container = TRUE]
                       ELSE [log(init, CmdEntry("system", FALSE, 0))
                             EXCEPT !.pc = "handler", !.raised = TRUE]
    /\ BatchUnchanged

\* log("command", "$ cmd") for the next command
BatchLogCommand ==
    /\ batch.pc = "commands"
    /\ batch.todo # <<>>
    /\ batch' = [log(batch, CmdEntry("command", FALSE, batch.k + 1))
                 EXCEPT !.pc = "exec", !.k = @ + 1]
    /\ BatchUnchanged

\* the loop going on behind the command after the next one
after_command_skipping(todo) == IF Len(todo) > 1 THEN Tail(Tail(todo)) ELSE <<>>

\* for cmd in filtered_commands: the commands left after one
after_command(todo) == Tail(todo)

\* container.exec_run of the command, then the entries of its output and
\* of its exit code; exec_run may raise
BatchExec ==
    /\ batch.pc = "exec"
    /\ \/ \E res \in ExecResults :
             batch' = [LogAll(batch, exec_entries(batch.k, res))
                       EXCEPT !.pc = "commands", !.todo = after_command(@),
                              !.started = @ \cup {batch.k},
                              !.ran = Append(@, Head(batch.todo)),
                              !.exit = (batch.k :> res.exit_code) @@ @]
       \/ batch' = [batch EXCEPT !.pc = "handler", !.started = @ \cup {batch.k},
                                 !.ran = Append(@, Head(batch.todo)),
                                 !.raised = TRUE]
    /\ BatchUnchanged

\* artifact retrieval after the last command
BatchArtifacts ==
    /\ batch.pc = "commands"
    /\ batch.todo = <<>>
    /\ \E outcome \in {"none", "retrieved", "archive_fails"} :
          LET listed == log(batch, CmdEntry("system", FALSE, 0))
              found == log(listed, CmdEntry("system", FALSE, 0))
          IN  batch' = CASE outcome = "none" -> [listed EXCEPT !.pc = "cleanup"]
                         [] outcome = "retrieved" ->
                              [found EXCEPT !.pc = "cleanup",
                                            !.artifacts = [f \in {"out"} |-> "path"]]
                         [] outcome = "archive_fails" ->
                              [log(found, CmdEntry("error", FALSE, 0))
                               EXCEPT !.pc = "cleanup"]
    /\ BatchUnchanged

\* except Exception as e: log("error", "Sandbox error: ...")
BatchHandler ==
    /\ batch.pc = "handler"
    /\ batch' = [log(batch, CmdEntry("error", FALSE, 0)) EXCEPT !.pc = "cleanup"]
    /\ BatchUnchanged

\* finally: log("system", "Cleaning up...") when a container was started
BatchCleanup ==
    /\ batch.pc = "cleanup"
    /\ batch' = [(IF batch.container
                  THEN log(batch, CmdEntry("system", FALSE, 0)) ELSE batch)
                 EXCEPT !.pc = "returned"]
    /\ BatchUnchanged

BatchResult == [logs |-> batch.logs, artifacts |-> batch.artifacts]

\* execute_node: without commands it returns at once, else it scans the
\* logs execute_batch returned and returns them in its update
BatchReturn ==
    /\ pc = "execute"
    /\ \/ batch.pc = "idle" /\ state.commands = <<>>
       \/ batch.pc = "returned"
    /\ LET upd == execute_node(state, BatchResult)
       IN  StepCore(upd, after_execute(Merge(state, upd)), NoDecision)
    /\ UNCHANGED sbvars

BatchNext ==
    \/ BatchCall
    \/ BatchLogCommand
    \/ BatchExec
    \/ BatchArtifacts
    \/ BatchHandler
    \/ BatchCleanup
    \/ BatchReturn

\* the Run State when the engine enters execute for the first time in a
\* turn: think has decided for code, generate_code has returned the
\* commands; with a checkpointer the logs of an earlier turn are still there
EnteringExecute(earlier_logs, commands) ==
    LET s0 == [Merge(EmptyChannels, initial_params) EXCEPT !.execution_logs = earlier_logs]
        s1 == Merge(s0, think_node(s0, TRUE, "none", ""))
        g == [files |-> [f \in {"a"} |-> 1], commands |-> commands]
    IN  Merge(s1, generate_code_node(s1, g))

BatchInitOver(lists) ==
    /\ InitRest
    /\ caller = NoCaller
    /\ memories = NoMemories
    /\ store = IF checkpointer THEN "online" ELSE "offline"
    /\ fs = [exists |-> FALSE, content |-> <<>>]
    /\ checkpointer
    /\ pc = "execute"
    /\ visited = <<"think", "generate_code">>
    /\ \E earlier_logs \in {<<>>, <<Entry("system", FALSE), Entry("success", FALSE)>>},
          commands \in lists :
          /\ turn = IF earlier_logs = <<>> THEN 1 ELSE 2
          /\ state = EnteringExecute(earlier_logs, commands)
          /\ node_output = generate_code_node(state, [files |-> state.files,
                                                       commands |-> commands])

BatchInit == BatchInitOver(CommandLists)

BatchSpec == BatchInit /\ [][BatchNext]_vars

\* execute_batch called with the command lists of FilterLists
FilterInit == BatchInitOver(FilterLists)

FilterSpec == FilterInit /\ [][BatchCall]_vars

\* a package-manager update, or an install of what the image already has:
\* the interpreter, or a module of its standard library
Redundant(cmd) ==
    Strip(cmd) \in { <<"apt-get", "update">>, <<"apt-get", "install", "python3">>,
                     <<"pip", "install", "decimal">> }

\* a package-install command without the override flag
InstallWithoutFlag(cmd) ==
    /\ Len(Strip(cmd)) >= 2
    /\ SubSeq(Strip(cmd), 1, 2) \in { <<"pip", "install">>, <<"pip3", "install">> }
    /\ ~Contains(cmd, <<"--break-system-packages">>)

\* C32: filtering keeps the input order and yields: the package-manager
\* updates and the installs of what is already present dropped, and only
\* those; every remaining package install that lacks the override flag
\* with the flag appended once; every other command unchanged.
C32_Filtering ==
    batch.pc # "idle" =>
        LET kept == SelectSeq(state.commands, LAMBDA c : ~Redundant(c))
        IN  /\ Len(batch.todo) = Len(kept)
            /\ \A n \in DOMAIN kept :
                   IF InstallWithoutFlag(kept[n])
                   THEN Strip(batch.todo[n])
                            = Append(Strip(kept[n]), "--break-system-packages")
                   ELSE batch.todo[n] = kept[n]

\* the positions of the entries of command k in the log
EntriesOf(k) == { i \in DOMAIN batch.logs : batch.logs[i].cmd = k }

Min(S) == CHOOSE x \in S : \A y \in S : x <= y

\* C23: for each command the sandbox executes the log holds, in this order,
\* one command entry emitted before the command runs, then its stdout and
\* stderr entries, then exactly one entry that is success for exit code 0
\* and error otherwise; the entries of different commands are not
\* interleaved.
C23_CommandEntries ==
    /\ \A k \in batch.started :
           \E i \in EntriesOf(k) : batch.logs[i].type = "command"
    /\ \A i \in DOMAIN batch.logs :
           batch.logs[i].type \in {"command", "stdout", "stderr", "success"}
               => batch.logs[i].cmd \in 1..batch.k
    /\ \A k \in DOMAIN batch.exit :
           LET first == Min(EntriesOf(k))
               last == Max(EntriesOf(k))
           IN  /\ EntriesOf(k) = first..last
               /\ first < last
               /\ batch.logs[first].type = "command"
               /\ batch.logs[last].type =
                      IF batch.exit[k] = 0 THEN "success" ELSE "error"
               /\ \A n \in (first + 1)..(last - 1) :
                      batch.logs[n].type \in {"stdout", "stderr"}

\* command k - 1 has finished and its result entry is in the log ahead of
\* the command entry of command k
RanInTurn(k) ==
    k > 1 =>
        /\ (k - 1) \in DOMAIN batch.exit
        /\ Max(EntriesOf(k - 1)) < Min(EntriesOf(k))
        /\ batch.logs[Max(EntriesOf(k - 1))].type \in {"success", "error"}

\* at most one exec_run per command, in the order of the filtered list, the
\* next one only after its predecessor's result entry
OneAfterAnother ==
    /\ IsPrefix(batch.ran, filtered_commands(state.commands))
    /\ batch.started = 1..Len(batch.ran)
    /\ \A k \in 1..batch.k :
           /\ Cardinality({ i \in EntriesOf(k) : batch.logs[i].type = "command" }) = 1
           /\ RanInTurn(k)

\* every filtered command was executed and has finished
AllExecuted ==
    /\ batch.ran = filtered_commands(state.commands)
    /\ DOMAIN batch.exit = 1..Len(batch.ran)

C23_Witness ==
    /\ batch.pc = "returned"
    /\ DOMAIN batch.exit = {1, 2}
    /\ batch.exit[1] = 1
    /\ batch.exit[2] = 0
    /\ Cardinality(EntriesOf(1)) = 4
    /\ Cardinality(EntriesOf(2)) = 2

\* C24: with a log callback the entries handed to the callback are the
\* entries of the log, entry for entry and in order, at every moment of the
\* call; execute_node appends the returned list to execution_logs in the
\* same order.
C24_CallbackSeesLog ==
    /\ batch.on_log => batch.delivered = batch.logs
    /\ (batch.pc = "returned" /\ pc # "execute") =>
           LET all == state.execution_logs
           IN  /\ Len(all) >= Len(batch.logs)
               /\ SubSeq(all, Len(all) - Len(batch.logs) + 1, Len(all)) = batch.logs
               /\ node_output.execution_logs = batch.logs

\* execute_node merged the log of a call with a callback behind the logs of
\* an earlier turn
C24_Witness ==
    /\ batch.pc = "returned"
    /\ pc # "execute"
    /\ batch.on_log
    /\ Len(batch.delivered) >= 8
    /\ Len(state.execution_logs) = Len(batch.logs) + 2
    /\ \E i \in DOMAIN batch.logs : batch.logs[i].type = "stderr"

\* C26: after an execution attempt is_solved is true exactly when the log
\* of the attempt has no error entry and no stderr entry with a failure
\* marker; with no commands the sandbox is not called, one error entry is
\* recorded and is_solved is false.
C26_SolvedIffClean ==
    pc # "execute" =>
        IF batch.pc = "idle"
        THEN /\ Len(node_output.execution_logs) = 1
             /\ node_output.execution_logs[1].type = "error"
             /\ ~state.is_solved
        ELSE state.is_solved <=>
                 \A i \in DOMAIN batch.logs :
                     /\ batch.logs[i].type # "error"
                     /\ ~(batch.logs[i].type = "stderr" /\ batch.logs[i].marker)

\* a command left with exit code 0 after writing a traceback to stderr
C26_Witness ==
    /\ pc = "reflect"
    /\ ~state.is_solved
    /\ batch.pc = "returned"
    /\ \A i \in DOMAIN batch.logs : batch.logs[i].type # "error"
    /\ \E i \in DOMAIN batch.logs : batch.logs[i].type = "success"

-----------------------------------------------------------------------------
(* Artifact retrieval of execute_batch (src/src/sandbox.py).  A file name   *)
(* is the sequence of its characters, of which "." and "/" are kept apart;  *)
(* any other element stands for a run of other characters.                  *)

\* the input file maps tried, by their keys
InputFileSets == { {<<"a">>}, {<<".", "/", "a">>} }

\* what the commands may leave at the top level of /app: a file, a hidden
\* file, a directory, a file named archive.tar
Produced ==
    { [name |-> <<"o">>, dir |-> FALSE],
      [name |-> <<".", "h">>, dir |-> FALSE],
      [name |-> <<"d">>, dir |-> TRUE],
      [name |-> <<"archive", ".", "tar">>, dir |-> FALSE] }

\* the files get_archive may fail for
Failing == SUBSET {<<"o">>}

\* the entry of /app put_archive creates for the input file filename
Deployed(filename) ==
    [ name |-> IF OccursAt(filename, <<".", "/">>, 1)
               THEN SubSeq(filename, 3, Len(filename)) ELSE filename,
      dir |-> FALSE ]

RECURSIVE lstrip(_, _)
\* str.lstrip(chars)
lstrip(t, chars) ==
    IF t # <<>> /\ Head(t) \in chars THEN lstrip(Tail(t), chars) ELSE t

\* the output lines of find . -maxdepth 1 -not -type d
find(entries) == { <<".", "/">> \o e.name : e \in { x \in entries : ~x.dir } }

\* the names the loop asks get_archive for
Wanted(files, entries) ==
    { fname \in { lstrip(f_raw, {".", "/"}) : f_raw \in find(entries) } :
        /\ fname # <<>>
        /\ fname # <<"archive", ".", "tar">>
        /\ fname \notin files }

\* the keys of artifacts after the loop: get_archive raises for a path that
\* is not in /app, and may raise for one that is
Retrieved(files, entries, failing) ==
    { fname \in Wanted(files, entries) :
        /\ \E e \in entries : e.name = fname
        /\ fname \notin failing }

\* the commands have run; the artifacts are retrieved
RetrieveArtifacts ==
    /\ workdir.pc = "idle"
    /\ \E files \in InputFileSets, made \in SUBSET Produced,
          exit_code \in {0, 1}, failing \in Failing :
          LET entries == { Deployed(f) : f \in files } \cup made
          IN  workdir' =
                  [ pc |-> "returned",
                    files |-> files,
                    entries |-> entries,
                    artifacts |-> IF exit_code = 0
                                  THEN Retrieved(files, entries, failing) ELSE {},
                    errors |-> IF exit_code = 0
                               THEN Wanted(files, entries)
                                        \ Retrieved(files, entries, failing)
                               ELSE {} ]
    /\ UNCHANGED <<state, pc, node_output, decision, turn, checkpointer,
                   logs_contributed, refl_contributed, visited, first_exec, caller>>
    /\ UNCHANGED ckvars
    /\ UNCHANGED sbvars
    /\ UNCHANGED <<fs, call, artifact_dir, runs, batch, memories, solutions>>

ArtifactSpec == Init /\ [][RetrieveArtifacts]_vars

\* C33: the keys of the returned artifacts map are exactly the top-level
\* entries of the working directory that are not input files: no input
\* file is reported, no produced entry is omitted.
C33_ArtifactsExact ==
    workdir.pc = "returned" =>
        workdir.artifacts = { e.name : e \in workdir.entries }
                                \ { Deployed(f).name : f \in workdir.files }

-----------------------------------------------------------------------------
(* The solution store (src/src/rag.py, src/src/db.py): store_solution       *)
(* called by the synthesize steps of two runs.                              *)

\* the tasks solutions are stored for
SolutionTasks == {"sum", "sum of", "sort"}

\* L2Distance of the embeddings of two tasks is below 0.2
Near(a, b) == a = b \/ {a, b} = {"sum", "sum of"}

\* store_solution without its deduplication check
is_duplicate_never(rows, task) == FALSE

\* the deduplication check: the nearest row is nearer than 0.2
is_duplicate(rows, task) == \E i \in DOMAIN rows : Near(rows[i].task, task)

SolutionUnchanged ==
    /\ UNCHANGED <<state, pc, node_output, decision, turn, checkpointer,
                   logs_contributed, refl_contributed, visited, first_exec, caller>>
    /\ UNCHANGED ckvars
    /\ UNCHANGED sbvars
    /\ UNCHANGED <<fs, call, artifact_dir, runs, batch, memories, workdir>>

\* store_solution up to its check: no client, a failing query or a
\* duplicate end the call, else the insert is next
StoreQuery(r) ==
    /\ solutions.calls[r].pc \in {"idle", "returned"}
    /\ Len(solutions.rows)
           + Cardinality({ q \in Runs : solutions.calls[q].pc = "insert" }) < MaxStored
    /\ \E task \in SolutionTasks, up \in BOOLEAN :
          solutions' =
              [solutions EXCEPT
                  !.calls[r] =
                      [ pc |-> IF up /\ ~is_duplicate(solutions.rows, task)
                               THEN "insert" ELSE "returned",
                        task |-> task,
                        seen |-> Len(solutions.rows) ]]
    /\ SolutionUnchanged

\* client.insert('solutions', ...), which may raise
StoreInsert(r) ==
    /\ solutions.calls[r].pc = "insert"
    /\ \E ok \in BOOLEAN :
          solutions' =
              [solutions EXCEPT
                  !.rows = IF ok
                           THEN Append(@, [task |-> solutions.calls[r].task,
                                           seen |-> solutions.calls[r].seen,
                                           by |-> r])
                           ELSE @,
                  !.calls[r].pc = "returned"]
    /\ SolutionUnchanged

SolutionNext == \E r \in Runs : StoreQuery(r) \/ StoreInsert(r)

SolutionSpec == Init /\ [][SolutionNext]_vars

\* C36: the solution store is written by inserts only, each behind a
\* deduplication check: whatever the interleaving of the calls of
\* different runs, no stored row is changed or removed, and two rows for
\* near-duplicate tasks are there only when the call that inserted the
\* later one had made its check before the earlier one was inserted.
C36_InsertOnly ==
    /\ [](\A i, j \in DOMAIN solutions.rows :
              (i < j /\ Near(solutions.rows[i].task, solutions.rows[j].task))
                  => solutions.rows[j].seen < i)
    /\ [][IsPrefix(solutions.rows, solutions'.rows)]_vars

\* two racing calls of different runs have both inserted a row for
\* near-duplicate tasks, and a later call for such a task was turned away
C36_Witness ==
    /\ Len(solutions.rows) = 2
    /\ solutions.rows[1].by # solutions.rows[2].by
    /\ Near(solutions.rows[1].task, solutions.rows[2].task)
    /\ \E r \in Runs :
           /\ solutions.calls[r].pc = "returned"
           /\ solutions.calls[r].seen = 2
           /\ Near(solutions.calls[r].task, solutions.rows[1].task)

----------------------------------------------------------------------------
(* One run with memory supplied by the caller and a memory table *)

\* st.session_state.memory, which app.py passes as memory
SuppliedMemory == {<<>>, <<"fact">>}

\* the memory table: unreachable, empty, holding another fact, holding the
\* supplied fact and another
MemoryTables ==
    {[up |-> FALSE, facts |-> <<>>]} \cup
    {[up |-> TRUE, facts |-> f] : f \in {<<>>, <<"recent">>, <<"fact", "recent">>}}

MemoryInit ==
    /\ InitRest
    /\ caller = NoCaller
    /\ store = IF checkpointer THEN "online" ELSE "offline"
    /\ fs = [exists |-> FALSE, content |-> <<>>]
    /\ turn = 1
    /\ pc = "think"
    /\ visited = <<>>
    /\ memories \in MemoryTables
    /\ \E m \in SuppliedMemory :
          /\ node_output = [initial_params EXCEPT !.memory = m]
          /\ state = Merge(EmptyChannels, node_output)

MemorySpec == MemoryInit /\ [][EngineStep]_vars

Range(seq) == { seq[i] : i \in DOMAIN seq }

\* C29: memory is append-only across the run: no step removes or replaces
\* an entry that was in memory before it, the entries supplied in the
\* initial state included.
C29_MemoryAppendOnly ==
    [][Range(state.memory) \subseteq Range(state'.memory)]_vars

----------------------------------------------------------------------------
(* Properties of the sandbox call and of the run under failures *)

\* C12: when a call of execute_batch that started a container returns or
\* raises, the container has been stopped and removed.
C12_ContainerRemoved ==
    sb.pc \in {"returned", "raised"} => sb.container \in {"none", "removed"}

\* the call met a failure of the sandbox itself and none of the callback
SandboxFailed ==
    /\ sb.faults \cap {"prepare", "start", "run", "exit"} # {}
    /\ "callback" \notin sb.faults

HasErrorEntry(logs) == \E i \in DOMAIN logs : logs[i].type = "error"

\* C18: after a sandbox failure (container start failure, non-zero exit,
\* exception while preparing or running the batch) execute_batch returns
\* logs with an error entry, and the execute step sets is_solved to false
\* and goes on to reflect or synthesize.
C18_SandboxFailureContained ==
    [][(pc = "execute" /\ pc' # pc /\ CanCheckpoint /\ SandboxFailed) =>
          /\ sb.pc = "returned"
          /\ HasErrorEntry(sb.logs)
          /\ ~state'.is_solved
          /\ pc' \in {"reflect", "synthesize"}]_vars

\* C19: with the store away, no step fails the run.
C19_RunSurvivesStoreFailure ==
    [][(store # "online" /\ sb.pc # "raised") => pc' # "failed"]_vars

\* C20: whether the metrics insert succeeds, raises or the store is
\* offline, execute returns the logs and artifacts of the sandbox call and
\* is_solved as the scan of the logs gives it, and does not fail.
C20_MetricsDoNotMatter ==
    [][(pc = "execute" /\ sb.pc = "returned" /\ CanCheckpoint /\ sb'.pc = "idle") =>
          /\ pc' \in {"reflect", "synthesize"}
          /\ node_output' = [ execution_logs |-> sb.logs,
                              is_solved |-> ~has_errors(sb.logs),
                              retrieved_files |-> sb.artifacts ]
          /\ agent_metrics' = agent_metrics + (IF store = "online" THEN 1 ELSE 0)]_vars

\* execute returned a solved result after the store went away, and no row
\* was logged
C20_Witness ==
    /\ pc = "synthesize"
    /\ store = "unreachable"
    /\ state.is_solved
    /\ state.iteration = 1
    /\ agent_metrics = 0
    /\ DOMAIN state.retrieved_files = {"out"}

====
